---------------------------- MODULE Spec2Model ----------------------------
(***************************************************************************)
(* A model of ohmers (src/src/lib.rs): records of one declared type,       *)
(*                                                                         *)
(*     model!(Dog { uniques { name:String = ..; };                         *)
(*                  indices { age:u8 = 0; dog:Reference<Dog> = ..; };      *)
(*                  votes:Counter = Counter;                               *)
(*                  tasks:List<Dog> = List::new();                         *)
(*                  pack:Set<Dog> = Set::new();                            *)
(*                  puppies:Collection<Dog> = Collection::new(); });       *)
(*                                                                         *)
(* kept in a key-value store by several clients.  Each client holds one    *)
(* in-memory record and calls new!, field assignment, save, delete, get,   *)
(* the accessors of the relation fields and queries.  The store holds the  *)
(* key families of the naming scheme:                                      *)
(*     {Type}:{id}  {Type}:all  {Type}:id  {Type}:uniques:{field}          *)
(*     {Type}:indices:{field}:{value}  {Type}:{field}:{id} (list, set)     *)
(*     {Type}:{id}:{field} (counter)                                       *)
(* The encoder, the decoder and the two store-side scripts (SAVE, DELETE)  *)
(* are modules of the crate that are not part of src/src/lib.rs; they are  *)
(* modelled from the specification (sections 4.1 and 4.2), read so that    *)
(* its data-model invariants (section 3) are what the script maintains.    *)
(***************************************************************************)
EXTENDS Integers, Sequences, FiniteSets, TLC

VARIABLES store, mem, last, assigned, pc, deltas, query, iter

vars == <<store, mem, last, assigned, pc, deltas, query, iter>>

\* what the calls on records leave alone
rel == <<deltas, query, iter>>

--------------------------------------------------------------------------
(* Bounds of the model *)

\* ids the allocator may hand out
MaxId == 3

\* number of records a racing scenario finds already saved
MaxPre == 2

\* longest list, and largest absolute value of a counter
MaxLen == 2

MaxCount == 2

\* how many calls of inter, union and diff build a query
MaxOps == 2

Clients == {1, 2}

NameVals == {"Max", "Buddy"}

AgeVals == {2, 3}

\* in the scenario of the relation fields: the client that calls, the
\* records it makes, the ids of the objects it puts into lists and sets,
\* the increments and the range positions it asks for
RelClients == {1}

RelNames == {"Max"}

RelAges == {3}

ElemIds == {1, 2}

DeltaVals == {-1, 1}

RangeVals == {-1, 0}

\* largest value of a u8 field (age:u8)
U8Max == 255

--------------------------------------------------------------------------
(* Names.  A field name is the sequence of its characters, so that the    *)
(* "_id" suffix test of uniques_indices is computed, not assumed.          *)

ClassName == "Dog"

IdField == <<"i", "d">>

NameField == <<"n", "a", "m", "e">>

AgeField == <<"a", "g", "e">>

\* dog:Reference<Dog>, and the attribute a reference is flattened to
DogField == <<"d", "o", "g">>

DogIdField == <<"d", "o", "g", "_", "i", "d">>

VotesField == <<"v", "o", "t", "e", "s">>

TasksField == <<"t", "a", "s", "k", "s">>

PackField == <<"p", "a", "c", "k">>

unique_fields == {NameField}

index_fields == {AgeField, DogField}

--------------------------------------------------------------------------
(* Store primitives on partial maps (a key that holds nothing is absent)  *)

EmptyMap == [k \in {} |-> ""]

NoSets == [k \in {} |-> {}]

NoMaps == [k \in {} |-> EmptyMap]

NoCounters == [k \in {} |-> 0]

NoLists == [k \in {} |-> <<>>]

Get(m, k, dflt) == IF k \in DOMAIN m THEN m[k] ELSE dflt

Put(m, k, v) == [j \in DOMAIN m \cup {k} |-> IF j = k THEN v ELSE m[j]]

Del(m, k) == [j \in DOMAIN m \ {k} |-> m[j]]

SMembers(sets, k) == Get(sets, k, {})

SAdd(sets, k, x) == Put(sets, k, SMembers(sets, k) \cup {x})

SRem(sets, k, x) ==
    IF SMembers(sets, k) \ {x} = {} THEN Del(sets, k)
    ELSE Put(sets, k, SMembers(sets, k) \ {x})

HGetAll(hashes, k) == Get(hashes, k, EmptyMap)

\* string increment(key, delta): the new value
IncrBy(counters, k, delta) == Put(counters, k, Get(counters, k, 0) + delta)

\* lists: a key whose list becomes empty is removed
LItems(lists, k) == Get(lists, k, <<>>)

LSet(lists, k, items) == IF items = <<>> THEN Del(lists, k) ELSE Put(lists, k, items)

\* list-range(key, start, end): inclusive positions from 0, negative ones
\* counted from the end
LRange(lists, k, start, end) ==
    LET items == LItems(lists, k)
        n == Len(items)
        a == IF start < 0 THEN (IF n + start < 0 THEN 0 ELSE n + start) ELSE start
        b == IF end < 0 THEN n + end ELSE (IF end >= n THEN n - 1 ELSE end)
    IN  IF a > b \/ a >= n THEN <<>> ELSE SubSeq(items, a + 1, b + 1)

\* list-remove-all(key, member): what is left, in order
RECURSIVE Without(_, _)
Without(items, x) ==
    IF items = <<>> THEN <<>>
    ELSE IF Head(items) = x THEN Without(Tail(items), x)
    ELSE <<Head(items)>> \o Without(Tail(items), x)

\* Key naming scheme
KeyHash(name, id) == <<name, id>>

KeyAll(name) == name

KeyId(name) == name

KeyUnique(name, field) == <<name, field>>

KeyIndex(name, field, value) == <<name, field, value>>

\* {Type}:{field}:{id}, of a list or a set
KeyRelation(name, property, id) == <<name, property, id>>

\* {Type}:{id}:{field}, of a counter
KeyCounter(name, id, prop) == <<name, id, prop>>

EmptyStore ==
    [id |-> NoCounters, all |-> NoSets, hash |-> NoMaps,
     uniques |-> NoMaps, indices |-> NoSets,
     counters |-> NoCounters, lists |-> NoLists, sets |-> NoSets]

--------------------------------------------------------------------------
(* Codec: a record is [id, name, age, dog]; its stored form is text.  The  *)
(* relation fields hold no data in memory and none in the record hash.    *)

\* text of an unsigned number, and the number a text denotes (if any)
Format(n) == ToString(n)

U8Texts == {Format(n) : n \in 0..U8Max}

ParseTable == [s \in U8Texts |-> CHOOSE n \in 0..U8Max : Format(n) = s]

CanParse(s) == s \in U8Texts

Parse(s) == ParseTable[s]

\* Encoder: the walk over the fields of a record.  The field called
\* id_field is the identity and goes to the features (with the type name);
\* every other field is flattened into the attributes, name then value.
\* (a reference field named ref is flattened to the attribute ref_id.)
EncoderOf(self, idf, ref) ==
    LET fields == <<NameField, self.name, AgeField, Format(self.age),
                    ref \o <<"_", "i", "d">>, Format(self.dog)>>
    IN  [features   |-> [name |-> ClassName,
                         id   |-> IF idf = IdField THEN self.id ELSE 0],
         attributes |-> IF idf = IdField THEN fields
                        ELSE <<IdField, Format(self.id)>> \o fields,
         counters   |-> {VotesField},
         sets       |-> {PackField},
         lists      |-> {TasksField}]

\* the Encoder of the declared type, whose reference field is dog
Encoder(self, idf) == EncoderOf(self, idf, DogField)

\* Ohmer::id_field
id_field == IdField

\* a serializer that was not told which field is the id
encoder_NoIdField(self) == Encoder(self, <<>>)

\* Ohmer::encoder: a new Encoder, told the id field, fed the record
encoder(self) == Encoder(self, id_field)

\* Decodable::decode over the stored attribute map (with the id injected)
Decoder(properties) ==
    IF /\ {IdField, NameField, AgeField, DogIdField} \subseteq DOMAIN properties
       /\ CanParse(properties[IdField])
       /\ CanParse(properties[AgeField])
       /\ CanParse(properties[DogIdField])
    THEN [ok |-> TRUE,
          obj |-> [id   |-> Parse(properties[IdField]),
                   name |-> properties[NameField],
                   age  |-> Parse(properties[AgeField]),
                   dog  |-> Parse(properties[DogIdField])]]
    ELSE [ok |-> FALSE, obj |-> [id |-> 0, name |-> "", age |-> 0, dog |-> 0]]

--------------------------------------------------------------------------
(* Ohmer::uniques_indices: one pass over the attribute pairs              *)

EndsWithId(key) ==
    /\ Len(key) > 3
    /\ SubSeq(key, Len(key) - 2, Len(key)) = <<"_", "i", "d">>

StripId(key) == SubSeq(key, 1, Len(key) - 3)

\* the loop body for pair i (0-based), on the accumulated
\* [uf, xf, uniques, indices]
UniquesIndicesStep(acc, attributes, i) ==
    LET key == attributes[2 * i + 1]
        val == attributes[2 * i + 2]
        isU == key \in acc.uf
        isX == key \in acc.xf
        isR == ~isX /\ EndsWithId(key) /\ StripId(key) \in acc.xf
    IN  [uf      |-> acc.uf \ {key},
         xf      |-> IF isX THEN acc.xf \ {key}
                     ELSE IF isR THEN acc.xf \ {StripId(key)}
                     ELSE acc.xf,
         uniques |-> IF isU THEN Put(acc.uniques, key, val) ELSE acc.uniques,
         indices |-> IF isX \/ isR THEN Put(acc.indices, key, <<val>>)
                     ELSE acc.indices]

RECURSIVE UniquesIndicesLoop(_, _, _)
UniquesIndicesLoop(acc, attributes, i) ==
    IF i >= Len(attributes) \div 2 THEN acc
    ELSE UniquesIndicesLoop(UniquesIndicesStep(acc, attributes, i),
                            attributes, i + 1)

\* the whole loop, for a type that declares the unique fields uf and the
\* index fields xf
UniquesIndicesOf(uf, xf, enc) ==
    UniquesIndicesLoop([uf |-> uf, xf |-> xf,
                        uniques |-> EmptyMap, indices |-> [k \in {} |-> <<>>]],
                       enc.attributes, 0)

\* the whole loop, from the declared unique and index fields
UniquesIndicesAcc(enc) == UniquesIndicesOf(unique_fields, index_fields, enc)

\* the pass with the uniques.insert left out
uniques_indices_NoUniques(enc) ==
    [ok |-> UniquesIndicesAcc(enc).uf = {}, unknown |-> UniquesIndicesAcc(enc).uf,
     uniques |-> EmptyMap, indices |-> UniquesIndicesAcc(enc).indices]

\* the pass with the indices.insert left out
uniques_indices_NoIndices(enc) ==
    [ok |-> UniquesIndicesAcc(enc).uf = {}, unknown |-> UniquesIndicesAcc(enc).uf,
     uniques |-> UniquesIndicesAcc(enc).uniques, indices |-> [k \in {} |-> <<>>]]

\* Ok((uniques, indices)), or Err(UnknownIndex(f)) for a unique field f
\* that no attribute carried (unknown: the fields left over)
uniques_indices(enc) ==
    [ok      |-> UniquesIndicesAcc(enc).uf = {},
     unknown |-> UniquesIndicesAcc(enc).uf,
     uniques |-> UniquesIndicesAcc(enc).uniques,
     indices |-> UniquesIndicesAcc(enc).indices]

\* the pass without the look at the unique fields left over
uniques_indices_of_NoCheck(uf, xf, enc) ==
    [ok      |-> TRUE,
     unknown |-> {},
     uniques |-> UniquesIndicesOf(uf, xf, enc).uniques,
     indices |-> UniquesIndicesOf(uf, xf, enc).indices]

\* uniques_indices of a type whose unique_fields() is uf and whose
\* index_fields() is xf
uniques_indices_of(uf, xf, enc) ==
    [ok      |-> UniquesIndicesOf(uf, xf, enc).uf = {},
     unknown |-> UniquesIndicesOf(uf, xf, enc).uf,
     uniques |-> UniquesIndicesOf(uf, xf, enc).uniques,
     indices |-> UniquesIndicesOf(uf, xf, enc).indices]

--------------------------------------------------------------------------
(* The store-side atomic units of work (specification 4.2).               *)

\* HMSET of the flattened attribute list: the map it writes
AttrMap(attributes) ==
    LET n == Len(attributes) \div 2
    IN  [k \in {attributes[2 * i - 1] : i \in 1..n} |->
            attributes[2 * (CHOOSE i \in 1..n :
                /\ attributes[2 * i - 1] = k
                /\ \A j \in 1..n : attributes[2 * j - 1] = k => j <= i)]]

\* who owns value v in the unique map of (name, field): 0 for nobody
UniqueOwner(st, name, field, v) ==
    Get(Get(st.uniques, KeyUnique(name, field), [k \in {} |-> 0]), v, 0)

\* (b) the unique fields whose value another id owns
Duplicates(st, model, uniques) ==
    {f \in DOMAIN uniques :
        /\ UniqueOwner(st, model.name, f, uniques[f]) # 0
        /\ UniqueOwner(st, model.name, f, uniques[f]) # model.id}

\* every entry that points to id removed from the unique maps of the
\* given fields of the type
RemoveUniques(umaps, name, id, fields) ==
    LET mine(k) == k[1] = name /\ k[2] \in fields
        left(k) == {v \in DOMAIN umaps[k] : umaps[k][v] # id}
        keep == {k \in DOMAIN umaps : ~mine(k) \/ left(k) # {}}
    IN  [k \in keep |->
            IF mine(k) THEN [v \in left(k) |-> umaps[k][v]] ELSE umaps[k]]

\* (d) the unique maps pointing the given values to id
SetUniques(umaps, name, id, uniques) ==
    [k \in DOMAIN umaps \cup {KeyUnique(name, f) : f \in DOMAIN uniques} |->
        IF k[1] = name /\ k[2] \in DOMAIN uniques
        THEN Put(Get(umaps, k, [v \in {} |-> 0]), uniques[k[2]], id)
        ELSE umaps[k]]

\* id removed from every index set of the type
RemoveIndices(isets, name, id) ==
    LET keep == {k \in DOMAIN isets : k[1] # name \/ isets[k] # {id}}
    IN  [k \in keep |-> IF k[1] = name THEN isets[k] \ {id} ELSE isets[k]]

\* (e) id added to the index set of each given field value
AddIndices(isets, name, id, indices) ==
    LET keys == UNION {{KeyIndex(name, f, indices[f][i]) :
                            i \in 1..Len(indices[f])} : f \in DOMAIN indices}
    IN  [k \in DOMAIN isets \cup keys |->
            IF k \in keys THEN SMembers(isets, k) \cup {id} ELSE isets[k]]

\* a hash that exists is left as it is
WriteHash_KeepOld(hashes, key, attributes) ==
    IF key \in DOMAIN hashes THEN hashes
    ELSE Put(hashes, key, AttrMap(attributes))

\* (c) the record hash overwritten (no attribute: no key)
WriteHash(hashes, key, attributes) ==
    IF Len(attributes) = 0 THEN Del(hashes, key)
    ELSE Put(hashes, key, AttrMap(attributes))

\* SAVE: [ok, id, store] or [ok = FALSE, fields = the colliding fields]
SaveScript(st, model, attributes, indices, uniques) ==
    LET dup == Duplicates(st, model, uniques)
        id == IF model.id = 0 THEN Get(st.id, KeyId(model.name), 0) + 1
              ELSE model.id
    IN  IF dup # {}
        THEN [ok |-> FALSE, fields |-> dup, id |-> 0, store |-> st]
        ELSE [ok |-> TRUE, fields |-> {}, id |-> id,
              store |->
                [id      |-> IF model.id = 0
                             THEN Put(st.id, KeyId(model.name), id)
                             ELSE st.id,
                 all     |-> SAdd(st.all, KeyAll(model.name), id),
                 hash    |-> WriteHash(st.hash, KeyHash(model.name, id),
                                       attributes),
                 uniques |-> SetUniques(
                                 RemoveUniques(st.uniques, model.name, id,
                                               DOMAIN uniques),
                                 model.name, id, uniques),
                 indices |-> AddIndices(
                                 RemoveIndices(st.indices, model.name, id),
                                 model.name, id, indices),
                 counters |-> st.counters,
                 lists    |-> st.lists,
                 sets     |-> st.sets]]

\* the keys of both shapes deleted for every tracked field name (tracked
\* tells no kinds): {Type}:{id}:{field} among the counters, and
\* {Type}:{field}:{id} among the lists and the sets
RemoveTrackedCounters(m, name, id, tracked) ==
    [k \in DOMAIN m \ {KeyCounter(name, id, f) : f \in tracked} |-> m[k]]

RemoveTracked(m, name, id, tracked) ==
    [k \in DOMAIN m \ {KeyRelation(name, f, id) : f \in tracked} |-> m[k]]

\* DELETE: the store without the record of model (key, id, name)
DeleteScript(st, model, uniques, tracked) ==
    [id       |-> st.id,
     all      |-> SRem(st.all, KeyAll(model.name), model.id),
     hash     |-> Del(st.hash, model.key),
     uniques  |-> RemoveUniques(st.uniques, model.name, model.id,
                                DOMAIN uniques),
     indices  |-> RemoveIndices(st.indices, model.name, model.id),
     counters |-> RemoveTrackedCounters(st.counters, model.name, model.id,
                                        tracked),
     lists    |-> RemoveTracked(st.lists, model.name, model.id, tracked),
     sets     |-> RemoveTracked(st.sets, model.name, model.id, tracked)]

--------------------------------------------------------------------------
(* The client side: Ohmer::load, save, delete                             *)

Ok == [kind |-> "Ok", field |-> <<>>]

Err(kind, field) == [kind |-> kind, field |-> field]

NotSaved == Err("NotSaved", <<>>)

DecoderError == Err("DecoderError", <<>>)

\* load without the insert of the id
load_NoId(st, id) == Decoder(HGetAll(st.hash, KeyHash(ClassName, id)))

\* load: HGETALL of {Type}:{id}, the id inserted, then decoded
load(st, id) ==
    LET properties == Put(HGetAll(st.hash, KeyHash(ClassName, id)),
                          IdField, Format(id))
    IN  Decoder(properties)

\* model!(Queue { tasks:List<Task> = List::new(); }): a type that stores
\* no field in its hash
QueueName == "Queue"

\* Decodable::decode for Queue: the id is the one attribute it reads
QueueDecoder(properties) ==
    IF IdField \in DOMAIN properties /\ CanParse(properties[IdField])
    THEN [ok |-> TRUE, obj |-> [id |-> Parse(properties[IdField])]]
    ELSE [ok |-> FALSE, obj |-> [id |-> 0]]

\* load of a Queue
Queue_load(st, id) ==
    LET properties == Put(HGetAll(st.hash, KeyHash(QueueName, id)),
                          IdField, Format(id))
    IN  QueueDecoder(properties)

\* set_id before the result is looked at
SaveOutcome_AlwaysSetsId(self, r, f) ==
    [res   |-> IF r.ok THEN Ok ELSE Err("UniqueIndexViolation", f),
     self  |-> [self EXCEPT !.id = r.id],
     store |-> r.store]

\* set_id forgotten
SaveOutcome_NeverSetsId(self, r, f) ==
    [res   |-> IF r.ok THEN Ok ELSE Err("UniqueIndexViolation", f),
     self  |-> self,
     store |-> r.store]

\* the end of save: the script's answer turned into the result, and the
\* id set on success only
SaveOutcome(self, r, f) ==
    IF r.ok
    THEN [res |-> Ok, self |-> [self EXCEPT !.id = r.id], store |-> r.store]
    ELSE [res |-> Err("UniqueIndexViolation", f), self |-> self,
          store |-> r.store]

\* the body of save after the encoder and uniques_indices calls: the
\* outcomes it can have on store st (one, unless several fields could be
\* named in the error)
SaveWith(st, self, enc, ui) ==
    LET r == SaveScript(st, enc.features, enc.attributes,
                        ui.indices, ui.uniques)
    IN  IF ~ui.ok
        THEN {[res |-> Err("UnknownIndex", f), self |-> self, store |-> st] :
                 f \in ui.unknown}
        ELSE IF r.ok THEN {SaveOutcome(self, r, <<>>)}
        ELSE {SaveOutcome(self, r, f) : f \in r.fields}

\* a save that also removes the counters kept for the record
save_DropsCounters(st, self) ==
    {[o EXCEPT !.store.counters =
         RemoveTrackedCounters(@, ClassName, o.self.id, {VotesField})] :
        o \in SaveWith(st, self, encoder(self),
                       uniques_indices(encoder(self)))}

\* save
save(st, self) ==
    SaveWith(st, self, encoder(self), uniques_indices(encoder(self)))

\* the id taken from a default record instead of self
DeleteModel_IdOfDefault(self) ==
    [key |-> KeyHash(ClassName, self.id), id |-> 0, name |-> ClassName]

\* the key built from a default record instead of self
DeleteModel_KeyOfDefault(self) ==
    [key |-> KeyHash(ClassName, 0), id |-> self.id, name |-> ClassName]

\* the model map delete sends: key, id, name
DeleteModel(self) ==
    [key |-> KeyHash(ClassName, self.id), id |-> self.id, name |-> ClassName]

\* tracked without the lists
Tracked_NoLists(enc) == enc.sets \cup enc.counters

\* the merged set of relation field names delete sends
Tracked(enc) == enc.sets \cup enc.counters \cup enc.lists

\* the body of delete after the encoder and uniques_indices calls; the
\* index map is computed and dropped
DeleteWith(st, self, enc, ui) ==
    LET tracked == Tracked(enc)
    IN  IF ~ui.ok
        THEN {[res |-> Err("UnknownIndex", f), store |-> st] :
                 f \in ui.unknown}
        ELSE {[res |-> Ok,
               store |-> DeleteScript(st, DeleteModel(self), ui.uniques,
                                      tracked)]}

\* delete: consumes the record
delete(st, self) ==
    DeleteWith(st, self, encoder(self), uniques_indices(encoder(self)))

--------------------------------------------------------------------------
(* Relation field accessors.  Each returns the result, the value it       *)
(* carries, the store command it issued ("none" if it issued none) and    *)
(* the store afterwards.                                                  *)

Ret(res, val, cmd, st) == [res |-> res, val |-> val, cmd |-> cmd, store |-> st]

\* Ohmer::get: a default object, loaded
get(st, id) == load(st, id)

\* with, after the HGET answered Some(id): obj.load(id, r) of a default
\* object, in a round trip of its own; a failed load is the error of with
with_load(st, opt_id) ==
    IF load(st, opt_id).ok
    THEN [res |-> Ok, opt |-> <<load(st, opt_id).obj>>]
    ELSE [res |-> DecoderError, opt |-> <<>>]

\* with, reading the per-value key shape of key_for_unique
with_KeyForUnique(st, property, value) ==
    LET opt_id == Get(Get(st.uniques, <<ClassName, property, value>>,
                          [k \in {} |-> 0]), value, 0)
    IN  IF opt_id = 0 THEN [res |-> Ok, opt |-> <<>>]
        ELSE IF load(st, opt_id).ok
             THEN [res |-> Ok, opt |-> <<load(st, opt_id).obj>>]
             ELSE [res |-> DecoderError, opt |-> <<>>]

\* with: HGET of {Type}:uniques:{property} at value; no entry is
\* Ok(None), an entry is the id of the record to load
with(st, property, value) ==
    LET opt_id == UniqueOwner(st, ClassName, property, value)
    IN  IF opt_id = 0 THEN [res |-> Ok, opt |-> <<>>]
        ELSE with_load(st, opt_id)

\* a leaf of a set expression: the key of a set of ids, in its key family
\* (all, indices or sets)
StalKey(family, key) == [kind |-> "Key", family |-> family, key |-> key, sets |-> <<>>]

\* Query::key: the index set of field = value
Query_key(field, value) == StalKey("indices", KeyIndex(ClassName, field, value))

\* Query::find
Query_find(field, value) == Query_key(field, value)

\* stal::Set::Inter, Union and Diff: an operation over set expressions
StalOp(kind, sets) == [kind |-> kind, family |-> "", key |-> <<>>, sets |-> sets]

\* an intersection of the given sets alone
Query_sinter_Replace(set, sets) == StalOp("Inter", sets)

\* Query::sinter: the current expression pushed after the given ones
Query_sinter(set, sets) == StalOp("Inter", Append(sets, set))

\* Query::inter
Query_inter(set, field, value) == Query_sinter(set, <<Query_key(field, value)>>)

\* Query::sunion: the current expression pushed after the given ones
Query_sunion(set, sets) == StalOp("Union", Append(sets, set))

\* Query::union
Query_union(set, field, value) == Query_sunion(set, <<Query_key(field, value)>>)

\* a difference that puts the current expression last
Query_sdiff_Push(set, sets) == StalOp("Diff", Append(sets, set))

\* Query::sdiff: the current expression inserted before the given ones
Query_sdiff(set, sets) == StalOp("Diff", <<set>> \o sets)

\* Query::diff
Query_diff(set, field, value) == Query_sdiff(set, <<Query_key(field, value)>>)

\* find!(Type { k: v, .. } || { .. }): the union of the intersections of
\* the leaves of each group, every value formatted
find(groups) ==
    StalOp("Union",
           [g \in DOMAIN groups |->
               StalOp("Inter",
                      [i \in DOMAIN groups[g] |->
                          Query_key(groups[g][i][1], Format(groups[g][i][2]))])])

--------------------------------------------------------------------------
(* The set-algebra solver (stal) and the store's command batches          *)

\* the key a command reads: a key of the store, or a temporary set
KeyRef(set) == [family |-> set.family, key |-> set.key, tmp |-> 0]

TmpRef(n) == [family |-> "tmp", key |-> <<>>, tmp |-> n]

\* the arguments of SORT that follow the key: the BY pattern, LIMIT (none,
\* or offset and count), ASC or DESC, ALPHA or not.  A pattern is the
\* key of a string, {class}:*:{field}, or a field of a hash,
\* {class}:*->{field}
SortPattern(class, field, hash) ==
    [class |-> class, field |-> field, hash |-> hash]

SortArgs(by, limit, asc, alpha) ==
    [by |-> by, limit |-> limit, asc |-> asc, alpha |-> alpha]

NoArgs == SortArgs(SortPattern("", <<>>, FALSE), <<>>, TRUE, FALSE)

StalCmd(cmd, dst, keys) ==
    [cmd |-> cmd, dst |-> dst, keys |-> keys, args |-> NoArgs]

\* SORT of the one set, with the arguments of the template
SortCmd(keys, args) ==
    [cmd |-> "SORT", dst |-> 0, keys |-> keys, args |-> args]

StoreCmd(kind) ==
    CASE kind = "Inter" -> "SINTERSTORE"
      [] kind = "Union" -> "SUNIONSTORE"
      [] kind = "Diff"  -> "SDIFFSTORE"

ReadCmd(kind) ==
    CASE kind = "Inter" -> "SINTER"
      [] kind = "Union" -> "SUNION"
      [] kind = "Diff"  -> "SDIFF"
      [] kind = "Key"   -> "SMEMBERS"

\* the commands that make the operands of an operation ready: an operand
\* that is an operation is stored into the next temporary set
RECURSIVE Compile(_, _)
Compile(sets, n) ==
    IF sets = <<>> THEN [cmds |-> <<>>, refs |-> <<>>, n |-> n]
    ELSE LET set == Head(sets)
             sub == Compile(set.sets, n)
             this == IF set.kind = "Key"
                     THEN [cmds |-> <<>>, refs |-> <<KeyRef(set)>>, n |-> n]
                     ELSE [cmds |-> Append(sub.cmds,
                                           StalCmd(StoreCmd(set.kind),
                                                   sub.n + 1, sub.refs)),
                           refs |-> <<TmpRef(sub.n + 1)>>,
                           n |-> sub.n + 1]
             rest == Compile(Tail(sets), this.n)
         IN  [cmds |-> this.cmds \o rest.cmds,
              refs |-> this.refs \o rest.refs,
              n |-> rest.n]

\* set.ids().solve(): MULTI, the commands of the operands, the command
\* that reads the ids, the removal of the temporary sets, EXEC; and the
\* position (from 0) of the command that reads the ids
Solve(set) ==
    LET sub == IF set.kind = "Key"
               THEN [cmds |-> <<>>, refs |-> <<KeyRef(set)>>, n |-> 0]
               ELSE Compile(set.sets, 0)
        del == IF sub.n = 0 THEN <<>>
               ELSE <<StalCmd("DEL", 0, [i \in 1..sub.n |-> TmpRef(i)])>>
    IN  [ops |-> <<StalCmd("MULTI", 0, <<>>)>> \o sub.cmds
                    \o <<StalCmd(ReadCmd(set.kind), 0, sub.refs)>>
                    \o del \o <<StalCmd("EXEC", 0, <<>>)>>,
         pos |-> Len(sub.cmds) + 1]

\* Stal::from_template(template, vec![(set, 1)]).solve(): the set is
\* made ready as an operand is (a key as it is, an operation stored into
\* a temporary set), the template command reads it, the temporary sets
\* are removed; and the position (from 0) of the template command
SolveTemplate(args, set) ==
    LET sub == Compile(<<set>>, 0)
        del == IF sub.n = 0 THEN <<>>
               ELSE <<StalCmd("DEL", 0, [i \in 1..sub.n |-> TmpRef(i)])>>
    IN  [ops |-> <<StalCmd("MULTI", 0, <<>>)>> \o sub.cmds
                    \o <<SortCmd(sub.refs, args)>>
                    \o del \o <<StalCmd("EXEC", 0, <<>>)>>,
         pos |-> Len(sub.cmds) + 1]

NoTmp == [n \in {} |-> {}]

\* the members of the set a command reads
RefValue(st, tmp, ref) ==
    CASE ref.family = "tmp"     -> Get(tmp, ref.tmp, {})
      [] ref.family = "indices" -> SMembers(st.indices, ref.key)
      [] ref.family = "sets"    -> SMembers(st.sets, ref.key)
      [] OTHER                  -> {}

\* SINTER, SUNION and SDIFF of the sets read; SMEMBERS of the one
SetValue(st, tmp, cmd, keys) ==
    LET v == [i \in DOMAIN keys |-> RefValue(st, tmp, keys[i])]
    IN  CASE cmd \in {"SINTER", "SINTERSTORE"} ->
                {x \in v[1] : \A i \in DOMAIN v : x \in v[i]}
          [] cmd \in {"SUNION", "SUNIONSTORE", "SMEMBERS"} ->
                UNION {v[i] : i \in DOMAIN v}
          [] cmd \in {"SDIFF", "SDIFFSTORE"} ->
                {x \in v[1] : \A i \in DOMAIN v \ {1} : x \notin v[i]}

\* the orders a reply may list the members of a set in
RECURSIVE Orders(_)
Orders(S) ==
    IF S = {} THEN {<<>>}
    ELSE UNION {{<<x>> \o t : t \in Orders(S \ {x})} : x \in S}

\* the text of a signed number as its bytes
RECURSIVE DigitBytes(_)
DigitBytes(n) ==
    IF n < 0 THEN <<45>> \o DigitBytes(0 - n)
    ELSE IF n < 10 THEN <<48 + n>>
    ELSE DigitBytes(n \div 10) \o <<48 + (n % 10)>>

\* the texts that denote a number, with the number
NumberTable ==
    [s \in {Format(n) : n \in (0 - U8Max)..U8Max} |->
        CHOOSE n \in (0 - U8Max)..U8Max : Format(n) = s]

\* the bytes of the other texts that are sorted
NameBytes ==
    [s \in {"Max", "Buddy", "Bella", "Lola"} |->
        CASE s = "Max"   -> <<77, 97, 120>>
          [] s = "Buddy" -> <<66, 117, 100, 100, 121>>
          [] s = "Bella" -> <<66, 101, 108, 108, 97>>
          [] s = "Lola"  -> <<76, 111, 108, 97>>]

TextBytes(s) ==
    IF s \in DOMAIN NumberTable THEN DigitBytes(NumberTable[s])
    ELSE NameBytes[s]

\* byte-wise comparison of two texts
RECURSIVE LexLE(_, _)
LexLE(a, b) ==
    IF a = <<>> THEN TRUE
    ELSE IF b = <<>> THEN FALSE
    ELSE IF Head(a) # Head(b) THEN Head(a) < Head(b)
    ELSE LexLE(Tail(a), Tail(b))

\* the weight of element id under a BY pattern: <<text>>, or <<>> when
\* the key or the field does not exist
SortWeight(st, by, id) ==
    IF by.hash
    THEN LET h == HGetAll(st.hash, KeyHash(by.class, id))
         IN  IF by.field \in DOMAIN h THEN <<h[by.field]>> ELSE <<>>
    ELSE LET k == KeyCounter(by.class, id, by.field)
         IN  IF k \in DOMAIN st.counters THEN <<Format(st.counters[k])>>
             ELSE <<>>

\* without ALPHA a weight is a number: a missing one is 0, and a text
\* that is no number cannot be sorted
IsScore(w) == w = <<>> \/ w[1] \in DOMAIN NumberTable

Score(w) == IF w = <<>> THEN 0 ELSE NumberTable[w[1]]

\* weight v is not after weight w; with ALPHA a missing weight is before
\* every text
WeightLE(alpha, v, w) ==
    IF ~alpha THEN Score(v) <= Score(w)
    ELSE IF v = <<>> THEN TRUE
    ELSE IF w = <<>> THEN FALSE
    ELSE LexLE(TextBytes(v[1]), TextBytes(w[1]))

Reverse(s) == [i \in DOMAIN s |-> s[Len(s) + 1 - i]]

\* LIMIT offset count
Window(s, limit) ==
    IF limit = <<>> THEN s
    ELSE SubSeq(s, limit[1] + 1,
                IF limit[1] + limit[2] < Len(s) THEN limit[1] + limit[2]
                ELSE Len(s))

\* SORT members BY pattern [LIMIT offset count] ASC|DESC [ALPHA]: an error
\* or the replies it may give (elements of equal weight in any order)
SortReply(st, members, args) ==
    LET w(i) == SortWeight(st, args.by, i)
        sorted == {s \in Orders(members) :
                      \A i \in 1..(Len(s) - 1) :
                          WeightLE(args.alpha, w(s[i]), w(s[i + 1]))}
    IN  IF ~args.alpha /\ \E i \in members : ~IsScore(w(i))
        THEN [ok |-> FALSE, seqs |-> {}]
        ELSE [ok |-> TRUE,
              seqs |-> {Window(IF args.asc THEN s ELSE Reverse(s),
                               args.limit) : s \in sorted}]

\* one command of a batch, run by the store: the temporary sets after
\* it, and its reply (the members read; the reply of a command that
\* writes is a number, and is not kept)
RunCmd(st, tmp, c) ==
    IF c.cmd \in {"SINTERSTORE", "SUNIONSTORE", "SDIFFSTORE"}
    THEN [tmp |-> Put(tmp, c.dst, SetValue(st, tmp, c.cmd, c.keys)),
          reply |-> {}]
    ELSE IF c.cmd = "DEL"
    THEN [tmp |-> [n \in DOMAIN tmp \ {c.keys[i].tmp : i \in DOMAIN c.keys}
                      |-> tmp[n]],
          reply |-> {}]
    ELSE IF c.cmd = "SORT"
    THEN [tmp |-> tmp,
          reply |-> SortReply(st, RefValue(st, tmp, c.keys[1]), c.args)]
    ELSE [tmp |-> tmp, reply |-> SetValue(st, tmp, c.cmd, c.keys)]

\* the commands of a pipeline from position pos on, run on one state of
\* the store: the temporary sets, and the replies that are not ignored
RECURSIVE RunFrom(_, _, _, _, _)
RunFrom(st, cmds, pos, tmp, out) ==
    IF pos > Len(cmds) THEN [tmp |-> tmp, out |-> out]
    ELSE LET r == RunCmd(st, tmp, cmds[pos].op)
         IN  RunFrom(st, cmds, pos + 1, r.tmp,
                     IF cmds[pos].ignore THEN out ELSE Append(out, r.reply))

--------------------------------------------------------------------------
(* Query execution and iteration                                         *)

\* a pipeline whose commands other clients' commands may run between
Iter_from_ops_NotAtomic(ops) ==
    [atomic |-> FALSE,
     cmds |-> [i \in 1..(Len(ops.ops) - 2) |->
                  [op |-> ops.ops[i + 1], ignore |-> (i # ops.pos)]]]

\* a pipeline that keeps the reply of every command
Iter_from_ops_KeepAll(ops) ==
    [atomic |-> TRUE,
     cmds |-> [i \in 1..(Len(ops.ops) - 2) |->
                  [op |-> ops.ops[i + 1], ignore |-> FALSE]]]

\* Iter::from_ops: an atomic pipeline of the operations without the first
\* (MULTI) and the last (EXEC), every reply ignored but that of the
\* operation at position ops.1
Iter_from_ops(ops) ==
    [atomic |-> TRUE,
     cmds |-> [i \in 1..(Len(ops.ops) - 2) |->
                  [op |-> ops.ops[i + 1], ignore |-> (i # ops.pos)]]]

\* Query::try_iter and Query::try_into_iter
Query_try_iter(set) == Iter_from_ops(Solve(set))

\* result.pop().unwrap(): the last reply that was kept
Popped(out) == out[Len(out)]

\* the ids of a query whose batch runs on the state st of the store
Query_ids(st, set) ==
    Popped(RunFrom(st, Query_try_iter(set).cmds, 1, NoTmp, <<>>).out)

\* the record encoded by Ohmer::counters: T::default()
DefaultRecord == [id |-> 0, name |-> "", age |-> 0, dog |-> 0]

\* Ohmer::counters: the counter fields a new Encoder collects
counters == Encoder(DefaultRecord, <<>>).counters

\* a sort that takes every field for a field of the record hash
Query_sort_HashOnly(set, by, limit, asc, alpha) ==
    Iter_from_ops(SolveTemplate(
        SortArgs(SortPattern(ClassName, by, TRUE), limit, asc, alpha), set))

\* Query::sort: the pattern is the counter's own key for a counter
\* field and the field of the record hash otherwise
Query_sort(set, by, limit, asc, alpha) ==
    Iter_from_ops(SolveTemplate(
        SortArgs(SortPattern(ClassName, by, by \notin counters),
                 limit, asc, alpha), set))

\* Iter::next: the next id is taken; None when there is none and when
\* the record cannot be loaded
Iter_next(st, ids) ==
    IF ids = <<>> THEN [item |-> <<>>, ids |-> <<>>, failed |-> FALSE]
    ELSE IF get(st, Head(ids)).ok
    THEN [item |-> <<get(st, Head(ids)).obj>>, ids |-> Tail(ids), failed |-> FALSE]
    ELSE [item |-> <<>>, ids |-> Tail(ids), failed |-> TRUE]

\* Counter::get_key: NotSaved for an object that has no id
Counter_get_key(obj, prop) ==
    IF obj.id = 0 THEN [ok |-> FALSE, key |-> <<>>]
    ELSE [ok |-> TRUE, key |-> KeyCounter(ClassName, obj.id, prop)]

\* an increment that forgets what the counter held
Counter_incr_Overwrite(st, obj, prop, incr) ==
    LET k == Counter_get_key(obj, prop)
    IN  IF ~k.ok THEN Ret(NotSaved, <<>>, "none", st)
        ELSE Ret(Ok, incr, "INCRBY",
                 [st EXCEPT !.counters = Put(@, k.key, incr)])

\* Counter::incr: one INCRBY, whose answer is the new value
Counter_incr(st, obj, prop, incr) ==
    LET k == Counter_get_key(obj, prop)
    IN  IF ~k.ok THEN Ret(NotSaved, <<>>, "none", st)
        ELSE Ret(Ok, IncrBy(st.counters, k.key, incr)[k.key], "INCRBY",
                 [st EXCEPT !.counters = IncrBy(@, k.key, incr)])

\* Counter::get: GET, and 0 for a key that holds nothing
Counter_get(st, obj, prop) ==
    LET k == Counter_get_key(obj, prop)
        r == IF k.key \in DOMAIN st.counters THEN <<st.counters[k.key]>> ELSE <<>>
    IN  IF ~k.ok THEN Ret(NotSaved, <<>>, "none", st)
        ELSE Ret(Ok, IF r = <<>> THEN 0 ELSE r[1], "GET", st)

\* key_name without the check of the id
List_key_name_NoCheck(property, parent) ==
    [ok |-> TRUE, key |-> KeyRelation(ClassName, property, parent.id)]

\* List::key_name: NotSaved for a parent that has no id
List_key_name(property, parent) ==
    IF parent.id = 0 THEN [ok |-> FALSE, key |-> <<>>]
    ELSE [ok |-> TRUE, key |-> KeyRelation(ClassName, property, parent.id)]

\* Some(id) => Some(try!(get(id, r))), None => None
Rehydrate(st, opt, cmd) ==
    IF opt = <<>> THEN Ret(Ok, <<>>, cmd, st)
    ELSE IF get(st, opt[1]).ok THEN Ret(Ok, <<get(st, opt[1]).obj>>, cmd, st)
    ELSE Ret(DecoderError, <<>>, cmd, st)

List_len(st, property, parent) ==
    LET k == List_key_name(property, parent)
    IN  IF ~k.ok THEN Ret(NotSaved, <<>>, "none", st)
        ELSE Ret(Ok, Len(LItems(st.lists, k.key)), "LLEN", st)

List_push_back(st, property, parent, obj) ==
    LET k == List_key_name(property, parent)
    IN  IF ~k.ok THEN Ret(NotSaved, <<>>, "none", st)
        ELSE Ret(Ok, <<>>, "RPUSH",
                 [st EXCEPT !.lists =
                     LSet(@, k.key, Append(LItems(@, k.key), obj.id))])

List_pop_back(st, property, parent) ==
    LET k == List_key_name(property, parent)
        items == LItems(st.lists, k.key)
        n == Len(items)
    IN  IF ~k.ok THEN Ret(NotSaved, <<>>, "none", st)
        ELSE IF n = 0 THEN Rehydrate(st, <<>>, "RPOP")
        ELSE Rehydrate([st EXCEPT !.lists = LSet(@, k.key, SubSeq(items, 1, n - 1))],
                       <<items[n]>>, "RPOP")

List_push_front(st, property, parent, obj) ==
    LET k == List_key_name(property, parent)
    IN  IF ~k.ok THEN Ret(NotSaved, <<>>, "none", st)
        ELSE Ret(Ok, <<>>, "LPUSH",
                 [st EXCEPT !.lists =
                     LSet(@, k.key, <<obj.id>> \o LItems(@, k.key))])

List_pop_front(st, property, parent) ==
    LET k == List_key_name(property, parent)
        items == LItems(st.lists, k.key)
    IN  IF ~k.ok THEN Ret(NotSaved, <<>>, "none", st)
        ELSE IF items = <<>> THEN Rehydrate(st, <<>>, "LPOP")
        ELSE Rehydrate([st EXCEPT !.lists = LSet(@, k.key, Tail(items))],
                       <<Head(items)>>, "LPOP")

List_first(st, property, parent) ==
    LET k == List_key_name(property, parent)
    IN  IF ~k.ok THEN Ret(NotSaved, <<>>, "none", st)
        ELSE Rehydrate(st, LRange(st.lists, k.key, 0, 0), "LINDEX")

List_last(st, property, parent) ==
    LET k == List_key_name(property, parent)
    IN  IF ~k.ok THEN Ret(NotSaved, <<>>, "none", st)
        ELSE Rehydrate(st, LRange(st.lists, k.key, -1, -1), "LINDEX")

\* the value is the list of ids the iterator is made of
List_try_range(st, property, parent, start, end) ==
    LET k == List_key_name(property, parent)
    IN  IF ~k.ok THEN Ret(NotSaved, <<>>, "none", st)
        ELSE Ret(Ok, LRange(st.lists, k.key, start, end), "LRANGE", st)

List_try_iter(st, property, parent) ==
    List_try_range(st, property, parent, 0, -1)

List_contains(st, property, parent, obj) ==
    LET k == List_key_name(property, parent)
        ids == LRange(st.lists, k.key, 0, -1)
    IN  IF ~k.ok THEN Ret(NotSaved, <<>>, "none", st)
        ELSE Ret(Ok, \E i \in 1..Len(ids) : ids[i] = obj.id, "LRANGE", st)

\* a remove that takes out the first occurrence only (LREM key 1 id)
List_remove_First(st, property, parent, obj) ==
    LET k == List_key_name(property, parent)
        items == LItems(st.lists, k.key)
        at == {i \in DOMAIN items : items[i] = obj.id}
        left == IF at = {} THEN items
                ELSE LET i == CHOOSE i \in at : \A j \in at : i <= j
                     IN  SubSeq(items, 1, i - 1)
                            \o SubSeq(items, i + 1, Len(items))
    IN  IF ~k.ok THEN Ret(NotSaved, <<>>, "none", st)
        ELSE Ret(Ok, Len(items) - Len(left), "LREM",
                 [st EXCEPT !.lists = LSet(@, k.key, left)])

List_remove(st, property, parent, obj) ==
    LET k == List_key_name(property, parent)
        items == LItems(st.lists, k.key)
        left == Without(items, obj.id)
    IN  IF ~k.ok THEN Ret(NotSaved, <<>>, "none", st)
        ELSE Ret(Ok, Len(items) - Len(left), "LREM",
                 [st EXCEPT !.lists = LSet(@, k.key, left)])

\* Set::key_name
Set_key_name(property, parent) ==
    IF parent.id = 0 THEN [ok |-> FALSE, key |-> <<>>]
    ELSE [ok |-> TRUE, key |-> KeyRelation(ClassName, property, parent.id)]

\* Set::key: the set as a leaf of a set expression (no store command)
Set_key(st, property, parent) ==
    LET k == Set_key_name(property, parent)
    IN  IF ~k.ok THEN Ret(NotSaved, <<>>, "none", st)
        ELSE Ret(Ok, StalKey("sets", k.key), "none", st)

\* Set::query: a Query of that leaf
Set_query(st, property, parent) ==
    IF Set_key(st, property, parent).res # Ok
    THEN Set_key(st, property, parent)
    ELSE Ret(Ok, Set_key(st, property, parent).val, "none", st)

\* an insert that answers whether the element is in the set afterwards
Set_insert_AlwaysTrue(st, property, parent, obj) ==
    LET k == Set_key_name(property, parent)
    IN  IF ~k.ok THEN Ret(NotSaved, <<>>, "none", st)
        ELSE Ret(Ok, TRUE, "SADD",
                 [st EXCEPT !.sets = SAdd(@, k.key, obj.id)])

Set_insert(st, property, parent, obj) ==
    LET k == Set_key_name(property, parent)
    IN  IF ~k.ok THEN Ret(NotSaved, <<>>, "none", st)
        ELSE Ret(Ok, obj.id \notin SMembers(st.sets, k.key), "SADD",
                 [st EXCEPT !.sets = SAdd(@, k.key, obj.id)])

Set_remove(st, property, parent, obj) ==
    LET k == Set_key_name(property, parent)
    IN  IF ~k.ok THEN Ret(NotSaved, <<>>, "none", st)
        ELSE Ret(Ok, obj.id \in SMembers(st.sets, k.key), "SREM",
                 [st EXCEPT !.sets = SRem(@, k.key, obj.id)])

Set_contains(st, property, parent, obj) ==
    LET k == Set_key_name(property, parent)
    IN  IF ~k.ok THEN Ret(NotSaved, <<>>, "none", st)
        ELSE Ret(Ok, obj.id \in SMembers(st.sets, k.key), "SISMEMBER", st)

Set_len(st, property, parent) ==
    LET k == Set_key_name(property, parent)
    IN  IF ~k.ok THEN Ret(NotSaved, <<>>, "none", st)
        ELSE Ret(Ok, Cardinality(SMembers(st.sets, k.key)), "SCARD", st)

\* the type name letter by letter, as collection! hands it over
ClassChars == <<"D", "o", "g">>

\* str::to_ascii_lowercase
AsciiUpper == <<"A", "B", "C", "D", "E", "F", "G", "H", "I", "J", "K", "L", "M",
                "N", "O", "P", "Q", "R", "S", "T", "U", "V", "W", "X", "Y", "Z">>

AsciiLower == <<"a", "b", "c", "d", "e", "f", "g", "h", "i", "j", "k", "l", "m",
                "n", "o", "p", "q", "r", "s", "t", "u", "v", "w", "x", "y", "z">>

to_ascii_lowercase(s) ==
    [i \in 1..Len(s) |->
        IF \E j \in 1..26 : AsciiUpper[j] = s[i]
        THEN AsciiLower[CHOOSE j \in 1..26 : AsciiUpper[j] = s[i]]
        ELSE s[i]]

\* Collection::all: a Query, never an error; no store command
Collection_all(st, property, parent) ==
    Ret(Ok, Query_find(to_ascii_lowercase(property) \o <<"_", "i", "d">>,
                       Format(parent.id)),
        "none", st)

\* collection!(obj.prop): the type name is the property handed over
collection(st, obj) == Collection_all(st, ClassChars, obj)

--------------------------------------------------------------------------
(* State.                                                                 *)
(*   store    the key-value store                                         *)
(*   mem[c]   client c's in-memory record: <<>> or <<[id, name, age]>>    *)
(*   last     the call that made the last step: who, what, its result,    *)
(*            the id it was about, the hash stored and the relation       *)
(*            containers kept for it before (and the record a delete      *)
(*            consumed)                                                   *)
(*   assigned the ids the allocator has handed out so far (history)       *)
(*   pc       in the racing scenario: res[c], the result of c's save,     *)
(*            and owner0, who owned the contested value at the start      *)
(*   deltas   per counter key, the sum of the increments made since the   *)
(*            last delete of its owner (history)                          *)
(*   query[c] client c's Query: <<>> or <<[set, calls]>>, the expression  *)
(*            it holds and the calls that built it (history)              *)
(*   iter[c]  client c's Iter: <<>> or <<[ids, ...]>>                     *)

Ids == 1..MaxId

Records == [id : {0} \cup Ids, name : NameVals, age : AgeVals, dog : {0}]

\* the keys of the relation containers that exist for id in st
Owned(st, id) ==
    [counters |-> {k \in DOMAIN st.counters : k[1] = ClassName /\ k[2] = id},
     lists    |-> {k \in DOMAIN st.lists : k[1] = ClassName /\ k[3] = id},
     sets     |-> {k \in DOMAIN st.sets : k[1] = ClassName /\ k[3] = id}]

NoneOwned == [counters |-> {}, lists |-> {}, sets |-> {}]

Label(c, op, res, id, st) ==
    [c |-> c, op |-> op, res |-> res, id0 |-> id,
     pre |-> HGetAll(st.hash, KeyHash(ClassName, id)),
     had |-> Owned(st, id)]

NoCall ==
    [c |-> 0, op |-> "none", res |-> Ok, id0 |-> 0, pre |-> EmptyMap,
     had |-> NoneOwned]

NoQueries == [c \in Clients |-> <<>>]

NoRace == [res |-> [c \in Clients |-> Err("idle", <<>>)], owner0 |-> 0]

Init ==
    /\ store = EmptyStore
    /\ mem = [c \in Clients |-> <<>>]
    /\ last = NoCall
    /\ assigned = {}
    /\ pc = NoRace
    /\ deltas = NoCounters
    /\ query = NoQueries
    /\ iter = NoQueries

\* new!(Dog { name: n, age: a }): a record that is not saved yet
NewOf(c, names, ages) ==
    /\ \E n \in names, a \in ages :
          mem' = [mem EXCEPT ![c] =
                     <<[id |-> 0, name |-> n, age |-> a, dog |-> 0]>>]
    /\ last' = NoCall
    /\ UNCHANGED <<store, assigned, pc, rel>>

New(c) == NewOf(c, NameVals, AgeVals)

\* obj.name = n: an in-memory change
SetName(c) ==
    /\ mem[c] # <<>>
    /\ \E n \in NameVals :
          mem' = [mem EXCEPT ![c] = <<[mem[c][1] EXCEPT !.name = n]>>]
    /\ last' = NoCall
    /\ UNCHANGED <<store, assigned, pc, rel>>

\* obj.age = a: an in-memory change
SetAge(c) ==
    /\ mem[c] # <<>>
    /\ \E a \in AgeVals :
          mem' = [mem EXCEPT ![c] = <<[mem[c][1] EXCEPT !.age = a]>>]
    /\ last' = NoCall
    /\ UNCHANGED <<store, assigned, pc, rel>>

\* obj.save(&client)
\* a call of save whose possible outcomes are outs
SaveStepOf(c, outs) ==
    /\ mem[c] # <<>>
    /\ \E out \in outs :
          /\ out.self.id <= MaxId
          /\ store' = out.store
          /\ mem' = [mem EXCEPT ![c] = <<out.self>>]
          /\ last' = Label(c, "save", out.res, mem[c][1].id, store)
          /\ assigned' = IF mem[c][1].id = 0 /\ out.res = Ok
                         THEN assigned \cup {out.self.id} ELSE assigned

SaveStep(c) == SaveStepOf(c, save(store, mem[c][1]))

Save(c) == SaveStep(c) /\ UNCHANGED <<pc, rel>>

\* obj.delete(&client), with the possible outcomes outs: the record is
\* moved into the call
DeleteOf(c, outs) ==
    /\ mem[c] # <<>>
    /\ \E out \in outs :
          /\ store' = out.store
          /\ mem' = [mem EXCEPT ![c] = <<>>]
          /\ last' = Label(c, "delete", out.res, mem[c][1].id, store)
                        @@ [self |-> mem[c][1]]
    /\ deltas' = IF last'.res = Ok
                 THEN RemoveTrackedCounters(deltas, ClassName, mem[c][1].id,
                                            {VotesField})
                 ELSE deltas
    /\ UNCHANGED <<assigned, pc, query, iter>>

Delete(c) == DeleteOf(c, delete(store, mem[c][1]))

\* get::<Dog>(id, &client): the client keeps the record it got
Load(c) ==
    /\ \E id \in {0} \cup Ids :
          LET r == load(store, id)
          IN  /\ mem' = IF r.ok THEN [mem EXCEPT ![c] = <<r.obj>>] ELSE mem
              /\ last' = Label(c, "load",
                               IF r.ok THEN Ok ELSE Err("DecoderError", <<>>),
                               id, store)
    /\ UNCHANGED <<store, assigned, pc, rel>>

Next ==
    \E c \in Clients :
        \/ New(c)
        \/ SetName(c)
        \/ SetAge(c)
        \/ Save(c)
        \/ Delete(c)
        \/ Load(c)

Spec == Init /\ [][Next]_vars

--------------------------------------------------------------------------
(* The racing scenario: some records are saved already, and two clients   *)
(* each hold a new record with the same name and save it once.            *)

NewRecords == [id : {0}, name : NameVals, age : AgeVals, dog : {0}]

\* the store after new records are saved one after the other
RECURSIVE SavedAll(_, _)
SavedAll(st, rs) ==
    IF rs = <<>> THEN st
    ELSE SavedAll((CHOOSE out \in save(st, Head(rs)) : TRUE).store, Tail(rs))

InitRace ==
    \E n \in 0..MaxPre : \E rs \in [1..n -> NewRecords] :
    \E v \in NameVals : \E ages \in [Clients -> AgeVals] :
        /\ store = SavedAll(EmptyStore, rs)
        /\ mem = [c \in Clients |->
                     <<[id |-> 0, name |-> v, age |-> ages[c], dog |-> 0]>>]
        /\ last = NoCall
        /\ assigned = 1..Get(store.id, KeyId(ClassName), 0)
        /\ pc = [res |-> [c \in Clients |-> Err("ready", <<>>)],
                 owner0 |-> UniqueOwner(store, ClassName, NameField, v)]
        /\ deltas = NoCounters
        /\ query = NoQueries
        /\ iter = NoQueries

RaceSave(c) ==
    /\ pc.res[c].kind = "ready"
    /\ SaveStep(c)
    /\ pc' = [pc EXCEPT !.res[c] = last'.res]
    /\ UNCHANGED rel

NextRace == \E c \in Clients : RaceSave(c)

SpecRace == InitRace /\ [][NextRace]_vars

--------------------------------------------------------------------------
(* The relation fields: one client makes, saves and deletes records and   *)
(* uses the accessors of votes (Counter), tasks (List) and pack (Set),    *)
(* and the collection puppies, on the record it holds.                    *)

\* an object with id e, handed to an accessor as the element
ElemOf(e) == [id |-> e, name |-> "Buddy", age |-> 2, dog |-> 0]

RelLabel(c, op, out) ==
    Label(c, op, out.res, mem[c][1].id, store)
        @@ [val |-> out.val, cmd |-> out.cmd]

\* the step of an accessor call whose outcome is out
RelStep(c, op, out) ==
    /\ store' = out.store
    /\ last' = RelLabel(c, op, out)
    /\ UNCHANGED <<mem, assigned, pc, query, iter>>

InBounds(st) ==
    /\ \A k \in DOMAIN st.counters :
          st.counters[k] <= MaxCount /\ -st.counters[k] <= MaxCount
    /\ \A k \in DOMAIN st.lists : Len(st.lists[k]) <= MaxLen

\* incr!(obj.votes, d, client)
Incr(c) ==
    /\ mem[c] # <<>>
    /\ \E d \in DeltaVals :
          LET out == Counter_incr(store, mem[c][1], VotesField, d)
              k == KeyCounter(ClassName, mem[c][1].id, VotesField)
          IN  /\ InBounds(out.store)
              /\ RelStep(c, "incr", out)
              /\ deltas' = IF out.res = Ok
                           THEN Put(deltas, k, Get(deltas, k, 0) + d)
                           ELSE deltas

\* counter!(obj.votes, client)
CounterGet(c) ==
    /\ mem[c] # <<>>
    /\ RelStep(c, "counter", Counter_get(store, mem[c][1], VotesField))
    /\ UNCHANGED deltas

\* len!(obj.tasks, client)
ListLen(c) ==
    /\ mem[c] # <<>>
    /\ RelStep(c, "list_len", List_len(store, TasksField, mem[c][1]))
    /\ UNCHANGED deltas

\* push_back!(obj.tasks, el, client)
PushBack(c) ==
    /\ mem[c] # <<>>
    /\ \E e \in ElemIds :
          LET out == List_push_back(store, TasksField, mem[c][1], ElemOf(e))
          IN  InBounds(out.store) /\ RelStep(c, "push_back", out)
    /\ UNCHANGED deltas

\* pop_back!(obj.tasks, client)
PopBack(c) ==
    /\ mem[c] # <<>>
    /\ RelStep(c, "pop_back", List_pop_back(store, TasksField, mem[c][1]))
    /\ UNCHANGED deltas

\* push_front!(obj.tasks, el, client)
PushFront(c) ==
    /\ mem[c] # <<>>
    /\ \E e \in ElemIds :
          LET out == List_push_front(store, TasksField, mem[c][1], ElemOf(e))
          IN  InBounds(out.store) /\ RelStep(c, "push_front", out)
    /\ UNCHANGED deltas

\* pop_front!(obj.tasks, client)
PopFront(c) ==
    /\ mem[c] # <<>>
    /\ RelStep(c, "pop_front", List_pop_front(store, TasksField, mem[c][1]))
    /\ UNCHANGED deltas

\* first!(obj.tasks, client)
First(c) ==
    /\ mem[c] # <<>>
    /\ RelStep(c, "first", List_first(store, TasksField, mem[c][1]))
    /\ UNCHANGED deltas

\* last!(obj.tasks, client)
Last(c) ==
    /\ mem[c] # <<>>
    /\ RelStep(c, "last", List_last(store, TasksField, mem[c][1]))
    /\ UNCHANGED deltas

\* try_range!(obj.tasks[a => b], client)
TryRange(c) ==
    /\ mem[c] # <<>>
    /\ \E a, b \in RangeVals :
          RelStep(c, "try_range",
                  List_try_range(store, TasksField, mem[c][1], a, b))
    /\ UNCHANGED deltas

\* try_iter!(obj.tasks, client)
TryIter(c) ==
    /\ mem[c] # <<>>
    /\ RelStep(c, "try_iter", List_try_iter(store, TasksField, mem[c][1]))
    /\ UNCHANGED deltas

\* contains!(obj.tasks, el, client)
ListContains(c) ==
    /\ mem[c] # <<>>
    /\ \E e \in ElemIds :
          RelStep(c, "list_contains",
                  List_contains(store, TasksField, mem[c][1], ElemOf(e)))
    /\ UNCHANGED deltas

\* remove!(obj.tasks, el, client)
ListRemove(c) ==
    /\ mem[c] # <<>>
    /\ \E e \in ElemIds :
          RelStep(c, "list_remove",
                  List_remove(store, TasksField, mem[c][1], ElemOf(e)))
    /\ UNCHANGED deltas

\* obj.pack.key("pack", &obj)
SetKey(c) ==
    /\ mem[c] # <<>>
    /\ RelStep(c, "set_key", Set_key(store, PackField, mem[c][1]))
    /\ UNCHANGED deltas

\* obj.pack.query("pack", &obj, client)
SetQuery(c) ==
    /\ mem[c] # <<>>
    /\ RelStep(c, "set_query", Set_query(store, PackField, mem[c][1]))
    /\ UNCHANGED deltas

\* insert!(obj.pack, el, client)
SetInsert(c) ==
    /\ mem[c] # <<>>
    /\ \E e \in ElemIds :
          RelStep(c, "set_insert",
                  Set_insert(store, PackField, mem[c][1], ElemOf(e)))
    /\ UNCHANGED deltas

\* remove!(obj.pack, el, client)
SetRemove(c) ==
    /\ mem[c] # <<>>
    /\ \E e \in ElemIds :
          RelStep(c, "set_remove",
                  Set_remove(store, PackField, mem[c][1], ElemOf(e)))
    /\ UNCHANGED deltas

\* contains!(obj.pack, el, client)
SetContains(c) ==
    /\ mem[c] # <<>>
    /\ \E e \in ElemIds :
          RelStep(c, "set_contains",
                  Set_contains(store, PackField, mem[c][1], ElemOf(e)))
    /\ UNCHANGED deltas

\* len!(obj.pack, client)
SetLen(c) ==
    /\ mem[c] # <<>>
    /\ RelStep(c, "set_len", Set_len(store, PackField, mem[c][1]))
    /\ UNCHANGED deltas

\* collection!(obj.puppies, client)
CollectionAll(c) ==
    /\ mem[c] # <<>>
    /\ RelStep(c, "collection", collection(store, mem[c][1]))
    /\ UNCHANGED deltas

NewNamed(c) == NewOf(c, RelNames, RelAges)

NextRel ==
    \E c \in RelClients :
        \/ NewNamed(c)
        \/ Save(c)
        \/ Delete(c)
        \/ Incr(c)
        \/ CounterGet(c)
        \/ ListLen(c)
        \/ PushBack(c)
        \/ PopBack(c)
        \/ PushFront(c)
        \/ PopFront(c)
        \/ First(c)
        \/ Last(c)
        \/ TryRange(c)
        \/ TryIter(c)
        \/ ListContains(c)
        \/ ListRemove(c)
        \/ SetKey(c)
        \/ SetQuery(c)
        \/ SetInsert(c)
        \/ SetRemove(c)
        \/ SetContains(c)
        \/ SetLen(c)
        \/ CollectionAll(c)

SpecRel == Init /\ [][NextRel]_vars

--------------------------------------------------------------------------
(* The frame scenario: one client makes one record, changes its age,      *)
(* saves it again and again, and in between increments its counter and    *)
(* puts objects into and takes them out of its list and its set.          *)

\* the first record the client makes
NewFirst(c) == assigned = {} /\ NewNamed(c)

NextFrame ==
    \E c \in RelClients :
        \/ NewFirst(c)
        \/ SetAge(c)
        \/ Save(c)
        \/ Incr(c)
        \/ PushBack(c)
        \/ PopFront(c)
        \/ SetInsert(c)
        \/ SetRemove(c)

SpecFrame == Init /\ [][NextFrame]_vars

--------------------------------------------------------------------------
(* The collection scenario: the type has one reference field to its own   *)
(* type, declared in indices, and a collection of its own type; the       *)
(* field is named after the type (dog) or otherwise (mate).  One client   *)
(* makes records, points their reference to a record, saves and deletes   *)
(* them, and asks for the collection of a saved record.                   *)

MateField == <<"m", "a", "t", "e">>

RefFields == {DogField, MateField}

InitColl ==
    \E ref \in RefFields :
        /\ store = EmptyStore
        /\ mem = [c \in Clients |-> <<>>]
        /\ last = NoCall
        /\ assigned = {}
        /\ pc = [ref |-> ref]
        /\ deltas = NoCounters
        /\ query = NoQueries
        /\ iter = NoQueries

\* new!(Dog { name: n, age: a })
NewColl(c) == NewOf(c, NameVals, RelAges)

\* obj.dog.set(&p), or obj.dog = Reference::new()
ReferenceSet(c) ==
    /\ mem[c] # <<>>
    /\ \E p \in {0} \cup SMembers(store.all, KeyAll(ClassName)) :
          mem' = [mem EXCEPT ![c] = <<[mem[c][1] EXCEPT !.dog = p]>>]
    /\ last' = NoCall
    /\ UNCHANGED <<store, assigned, pc, rel>>

\* the encoder and the declared fields of the type of the scenario
EncoderColl(self) == EncoderOf(self, id_field, pc.ref)

UniquesIndicesColl(self) ==
    uniques_indices_of(unique_fields, {AgeField, pc.ref}, EncoderColl(self))

\* obj.save(&client)
SaveColl(c) ==
    /\ SaveStepOf(c, SaveWith(store, mem[c][1], EncoderColl(mem[c][1]),
                              UniquesIndicesColl(mem[c][1])))
    /\ UNCHANGED <<pc, rel>>

\* obj.delete(&client)
DeleteColl(c) ==
    DeleteOf(c, DeleteWith(store, mem[c][1], EncoderColl(mem[c][1]),
                           UniquesIndicesColl(mem[c][1])))

\* collection!(p.puppies, client).try_iter(), p a saved record
CollectionOf(c) ==
    /\ \E p \in SMembers(store.all, KeyAll(ClassName)) :
          LET out == collection(store, [id |-> p])
          IN  last' = Label(c, "collection", out.res, p, store)
                         @@ [val |-> Query_ids(store, out.val)]
    /\ UNCHANGED <<store, mem, assigned, pc, rel>>

NextColl ==
    \E c \in RelClients :
        \/ NewColl(c)
        \/ ReferenceSet(c)
        \/ SaveColl(c)
        \/ DeleteColl(c)
        \/ CollectionOf(c)

SpecColl == InitColl /\ [][NextColl]_vars

--------------------------------------------------------------------------
(* The list scenario and the set scenario: one or two records are saved   *)
(* and the client holds one of them, the owner; it calls the accessors    *)
(* of the owner's list (of its set) with the objects of ElemIds, some of  *)
(* which are saved records, and deletes saved records other than the      *)
(* owner.                                                                 *)

InitOwner ==
    \E n \in 1..MaxPre : \E rs \in [1..n -> NewRecords] :
        LET st == SavedAll(EmptyStore, rs)
        IN  \E o \in SMembers(st.all, KeyAll(ClassName)) :
            /\ store = st
            /\ mem = [c \in Clients |->
                         IF c \in RelClients THEN <<load(st, o).obj>>
                         ELSE <<>>]
            /\ last = NoCall
            /\ assigned = 1..Get(st.id, KeyId(ClassName), 0)
            /\ pc = NoRace
            /\ deltas = NoCounters
            /\ query = NoQueries
            /\ iter = NoQueries

\* the step of an accessor call with the arguments args and outcome out
ArgStep(c, op, args, out) ==
    /\ InBounds(out.store)
    /\ store' = out.store
    /\ last' = RelLabel(c, op, out) @@ [args |-> args]
    /\ UNCHANGED <<mem, assigned, pc, rel>>

\* get::<Dog>(e, &client).unwrap().delete(&client), e not the owner
DeleteElement(c) ==
    /\ \E e \in SMembers(store.all, KeyAll(ClassName)) \ {mem[c][1].id} :
       \E out \in delete(store, load(store, e).obj) :
          /\ store' = out.store
          /\ last' = Label(c, "delete_element", out.res, e, store)
    /\ UNCHANGED <<mem, assigned, pc, rel>>

ListCall(c) ==
    LET o == mem[c][1]
    IN  \/ ArgStep(c, "list_len", <<>>, List_len(store, TasksField, o))
        \/ \E e \in ElemIds :
              ArgStep(c, "push_back", <<e>>,
                      List_push_back(store, TasksField, o, ElemOf(e)))
        \/ \E e \in ElemIds :
              ArgStep(c, "push_front", <<e>>,
                      List_push_front(store, TasksField, o, ElemOf(e)))
        \/ ArgStep(c, "pop_back", <<>>, List_pop_back(store, TasksField, o))
        \/ ArgStep(c, "pop_front", <<>>, List_pop_front(store, TasksField, o))
        \/ ArgStep(c, "first", <<>>, List_first(store, TasksField, o))
        \/ ArgStep(c, "last", <<>>, List_last(store, TasksField, o))
        \/ \E a, b \in RangeVals :
              ArgStep(c, "try_range", <<a, b>>,
                      List_try_range(store, TasksField, o, a, b))
        \/ ArgStep(c, "try_iter", <<>>, List_try_iter(store, TasksField, o))
        \/ \E e \in ElemIds :
              ArgStep(c, "list_contains", <<e>>,
                      List_contains(store, TasksField, o, ElemOf(e)))
        \/ \E e \in ElemIds :
              ArgStep(c, "list_remove", <<e>>,
                      List_remove(store, TasksField, o, ElemOf(e)))

NextList == \E c \in RelClients : ListCall(c) \/ DeleteElement(c)

SpecList == InitOwner /\ [][NextList]_vars

SetCall(c) ==
    LET o == mem[c][1]
    IN  \/ ArgStep(c, "set_len", <<>>, Set_len(store, PackField, o))
        \/ \E e \in ElemIds :
              ArgStep(c, "set_insert", <<e>>,
                      Set_insert(store, PackField, o, ElemOf(e)))
        \/ \E e \in ElemIds :
              ArgStep(c, "set_remove", <<e>>,
                      Set_remove(store, PackField, o, ElemOf(e)))
        \/ \E e \in ElemIds :
              ArgStep(c, "set_contains", <<e>>,
                      Set_contains(store, PackField, o, ElemOf(e)))

NextSet == \E c \in RelClients : SetCall(c) \/ DeleteElement(c)

SpecSet == InitOwner /\ [][NextSet]_vars

--------------------------------------------------------------------------
(* The counting scenario: a record is saved, its counter holds some       *)
(* value, and every client holds the record and increments the counter   *)
(* by 1 once; the store runs the increments one at a time, in any order.  *)

InitIncr ==
    \E n \in 1..MaxPre : \E rs \in [1..n -> NewRecords] :
    \E v0 \in (0 - MaxCount)..MaxCount : \E held \in BOOLEAN :
        LET st == SavedAll(EmptyStore, rs)
        IN  \E o \in SMembers(st.all, KeyAll(ClassName)) :
            /\ held \/ v0 = 0
            /\ store = [st EXCEPT !.counters =
                           IF held
                           THEN Put(@, KeyCounter(ClassName, o, VotesField), v0)
                           ELSE @]
            /\ mem = [c \in Clients |-> <<load(st, o).obj>>]
            /\ last = NoCall
            /\ assigned = 1..Get(st.id, KeyId(ClassName), 0)
            /\ pc = [res |-> [c \in Clients |-> Err("ready", <<>>)],
                     owner0 |-> v0]
            /\ deltas = NoCounters
            /\ query = NoQueries
            /\ iter = NoQueries

\* incr!(obj.votes, 1, client), once for the client
IncrOnce(c) ==
    /\ pc.res[c].kind = "ready"
    /\ LET out == Counter_incr(store, mem[c][1], VotesField, 1)
       IN  /\ store' = out.store
           /\ last' = RelLabel(c, "incr", out)
           /\ pc' = [pc EXCEPT !.res[c] = Err("done", <<out.val>>)]
    /\ UNCHANGED <<mem, assigned, rel>>

NextIncr == \E c \in Clients : IncrOnce(c)

SpecIncr == InitIncr /\ [][NextIncr]_vars

--------------------------------------------------------------------------
(* The lookup scenario: one client makes, renames, saves, deletes and     *)
(* loads records, and looks records up by the value of the unique field.  *)

\* with::<Dog, _>("name", v, &client): the record found stays in the call
With(c) ==
    /\ \E v \in NameVals :
          LET r == with(store, NameField, v)
          IN  last' = Label(c, "with", r.res, 0, store)
                         @@ [val |-> v, opt |-> r.opt]
    /\ UNCHANGED <<store, mem, assigned, pc, rel>>

NextWith ==
    \E c \in RelClients :
        \/ New(c)
        \/ SetName(c)
        \/ Save(c)
        \/ Delete(c)
        \/ Load(c)
        \/ With(c)

SpecWith == Init /\ [][NextWith]_vars

--------------------------------------------------------------------------
(* The interleaved lookup scenario: with is two round trips to the store, *)
(* the HGET of the unique map and the load of the record; one client      *)
(* looks records up while the other makes, renames, saves and deletes     *)
(* them, also between the two round trips.                                *)

\* the call of with that is under way: the value asked for and the id the
\* unique map answered
NoLookup == [at |-> "idle", val |-> "", id |-> 0]

InitLookup ==
    /\ store = EmptyStore
    /\ mem = [c \in Clients |-> <<>>]
    /\ last = NoCall
    /\ assigned = {}
    /\ pc = NoLookup
    /\ deltas = NoCounters
    /\ query = NoQueries
    /\ iter = NoQueries

\* with::<Dog, _>("name", v, &client), first round trip: the HGET; None
\* ends the call with Ok(None), Some(id) is kept for the load
WithLookup(c) ==
    /\ pc.at = "idle"
    /\ \E v \in NameVals :
          LET opt_id == UniqueOwner(store, ClassName, NameField, v)
          IN  IF opt_id = 0
              THEN /\ last' = Label(c, "with", Ok, 0, store)
                                  @@ [val |-> v, opt |-> <<>>]
                   /\ pc' = pc
              ELSE /\ last' = NoCall
                   /\ pc' = [at |-> "load", val |-> v, id |-> opt_id]
    /\ UNCHANGED <<store, mem, assigned, rel>>

\* second round trip: the load of the id, whose outcome with returns
WithLoad(c) ==
    /\ pc.at = "load"
    /\ LET r == with_load(store, pc.id)
       IN  last' = Label(c, "with", r.res, 0, store)
                      @@ [val |-> pc.val, opt |-> r.opt]
    /\ pc' = NoLookup
    /\ UNCHANGED <<store, mem, assigned, rel>>

NextLookup ==
    \/ \E c \in RelClients :
          \/ WithLookup(c)
          \/ WithLoad(c)
    \/ \E c \in Clients \ RelClients :
          \/ New(c)
          \/ SetName(c)
          \/ Save(c)
          \/ Delete(c)

SpecLookup == InitLookup /\ [][NextLookup]_vars

--------------------------------------------------------------------------
(* The declaring scenario: the type implements unique_fields() and        *)
(* index_fields() by hand, and may name fields the record does not have   *)
(* (chip, color); one client makes, saves and deletes records of it.      *)

ChipField == <<"c", "h", "i", "p">>

ColorField == <<"c", "o", "l", "o", "r">>

DeclUniques == {NameField, ChipField}

DeclIndices == {AgeField, DogField, ColorField}

InitDecl ==
    \E uf \in SUBSET DeclUniques, xf \in SUBSET DeclIndices :
        /\ store = EmptyStore
        /\ mem = [c \in Clients |-> <<>>]
        /\ last = NoCall
        /\ assigned = {}
        /\ pc = [uf |-> uf, xf |-> xf]
        /\ deltas = NoCounters
        /\ query = NoQueries
        /\ iter = NoQueries

\* new!(Dog { name: n, age: a })
NewDecl(c) == NewOf(c, NameVals, RelAges)

\* obj.save(&client), for the type as declared
SaveDecl(c) ==
    /\ SaveStepOf(c, SaveWith(store, mem[c][1], encoder(mem[c][1]),
                              uniques_indices_of(pc.uf, pc.xf,
                                                 encoder(mem[c][1]))))
    /\ UNCHANGED <<pc, rel>>

\* obj.delete(&client), for the type as declared
DeleteDecl(c) ==
    DeleteOf(c, DeleteWith(store, mem[c][1], encoder(mem[c][1]),
                           uniques_indices_of(pc.uf, pc.xf,
                                              encoder(mem[c][1]))))

NextDecl == \E c \in RelClients : NewDecl(c) \/ SaveDecl(c) \/ DeleteDecl(c)

SpecDecl == InitDecl /\ [][NextDecl]_vars

--------------------------------------------------------------------------
(* The querying scenario: some records are saved; client 1 builds one     *)
(* query, executes it and iterates over the result, while client 2 holds  *)
(* one of the records and changes, saves and deletes it.                  *)

QClients == {1}

OtherClients == {2}

\* the leaves queries are built from, and the groups find! is given
Leaves == {<<AgeField, Format(a)>> : a \in AgeVals}

Groups ==
    {<<<<AgeField, a>>>> : a \in AgeVals}
        \cup {<<<<AgeField, a>>, <<DogIdField, 0>>>> : a \in AgeVals}

\* a call that built the query, as the caller wrote it
Call(call, field, value, groups) ==
    [call |-> call, field |-> field, value |-> value, groups |-> groups]

QLabel(c, op, val) ==
    [c |-> c, op |-> op, res |-> Ok, id0 |-> 0, pre |-> EmptyMap,
     had |-> NoneOwned, val |-> val, at |-> {}, log |-> <<>>,
     after |-> FALSE]

NoPipe == [atomic |-> TRUE, cmds |-> <<>>]

InitIter ==
    \E n \in 1..MaxPre : \E rs \in [1..n -> NewRecords] :
        LET st == SavedAll(EmptyStore, rs)
        IN  \E o \in SMembers(st.all, KeyAll(ClassName)) :
            /\ store = st
            /\ mem = [c \in Clients |->
                         IF c \in OtherClients THEN <<load(st, o).obj>>
                         ELSE <<>>]
            /\ last = NoCall
            /\ assigned = 1..Get(st.id, KeyId(ClassName), 0)
            /\ pc = NoRace
            /\ deltas = NoCounters
            /\ query = NoQueries
            /\ iter = NoQueries

QStep(c, op, set, call) ==
    /\ query' = [query EXCEPT ![c] =
                    <<[set |-> set,
                       log |-> IF query[c] = <<>> THEN <<call>>
                               ELSE Append(query[c][1].log, call)]>>]
    /\ last' = QLabel(c, op, <<>>)
    /\ UNCHANGED <<store, mem, assigned, pc, deltas, iter>>

\* Query::find(field, value, client)
QFind(c) ==
    /\ query[c] = <<>> /\ iter[c] = <<>>
    /\ \E l \in Leaves :
          QStep(c, "find", Query_find(l[1], l[2]), Call("find", l[1], l[2], <<>>))

\* find!(Dog { .. } || { .. }, client)
QFindMacro(c) ==
    /\ query[c] = <<>> /\ iter[c] = <<>>
    /\ \E n \in 1..2 : \E groups \in [1..n -> Groups] :
          QStep(c, "find!", find(groups), Call("find!", <<>>, "", groups))

\* a query made by Query::find that may take one more call
Building(c) ==
    /\ query[c] # <<>>
    /\ query[c][1].log[1].call = "find"
    /\ Len(query[c][1].log) <= MaxOps

\* query.inter(field, value)
QInter(c) ==
    /\ Building(c)
    /\ \E l \in Leaves :
          QStep(c, "inter", Query_inter(query[c][1].set, l[1], l[2]),
                Call("inter", l[1], l[2], <<>>))

\* query.union(field, value)
QUnion(c) ==
    /\ Building(c)
    /\ \E l \in Leaves :
          QStep(c, "union", Query_union(query[c][1].set, l[1], l[2]),
                Call("union", l[1], l[2], <<>>))

\* query.diff(field, value)
QDiff(c) ==
    /\ Building(c)
    /\ \E l \in Leaves :
          QStep(c, "diff", Query_diff(query[c][1].set, l[1], l[2]),
                Call("diff", l[1], l[2], <<>>))

\* the pipeline of the query is sent to the store; the query is not used
\* again
Sent(c, op) ==
    /\ query[c] # <<>>
    /\ iter' = [iter EXCEPT ![c] =
                   <<[state |-> "sent",
                      pipe |-> Query_try_iter(query[c][1].set),
                      pos |-> 1, tmp |-> NoTmp, out |-> <<>>, at |-> {},
                      log |-> query[c][1].log,
                      ids |-> <<>>, failed |-> FALSE]>>]
    /\ query' = [query EXCEPT ![c] = <<>>]
    /\ last' = QLabel(c, op, <<>>)
    /\ UNCHANGED <<store, mem, assigned, pc, deltas>>

\* query.try_iter()
TryQueryIter(c) == Sent(c, "try_iter")

\* query.try_into_iter()
TryIntoIter(c) == Sent(c, "try_into_iter")

\* the store runs the pipeline: all of an atomic one at once, one command
\* of another; when the last command has run, the kept reply that was
\* pushed last becomes the ids of the iterator, in some order
Exec(c) ==
    /\ iter[c] # <<>> /\ iter[c][1].state = "sent"
    /\ LET it == iter[c][1]
           n == Len(it.pipe.cmds)
           r == IF it.pipe.atomic
                THEN RunFrom(store, it.pipe.cmds, it.pos, it.tmp, it.out)
                ELSE RunFrom(store, SubSeq(it.pipe.cmds, 1, it.pos), it.pos,
                             it.tmp, it.out)
       IN  IF it.pipe.atomic \/ it.pos = n
           THEN \E ids \in Orders(Popped(r.out)) :
                   /\ iter' = [iter EXCEPT ![c] =
                                  <<[state |-> "iter", pipe |-> NoPipe,
                                     pos |-> 1, tmp |-> NoTmp, out |-> <<>>,
                                     at |-> {}, log |-> <<>>,
                                     ids |-> ids, failed |-> FALSE]>>]
                   /\ last' = [QLabel(c, "exec", ids) EXCEPT
                                  !.at = it.at \cup {store}, !.log = it.log]
           ELSE /\ iter' = [iter EXCEPT ![c] =
                               <<[it EXCEPT !.pos = @ + 1, !.tmp = r.tmp,
                                            !.out = r.out,
                                            !.at = @ \cup {store}]>>]
                /\ last' = QLabel(c, "exec_part", <<>>)
    /\ UNCHANGED <<store, mem, assigned, pc, deltas, query>>

\* iter.next()
IterNext(c) ==
    /\ iter[c] # <<>> /\ iter[c][1].state = "iter"
    /\ LET it == iter[c][1]
           r == Iter_next(store, it.ids)
       IN  /\ iter' = [iter EXCEPT ![c] =
                          <<[it EXCEPT !.ids = r.ids,
                                       !.failed = @ \/ r.failed]>>]
           /\ last' = [QLabel(c, "next", r.item) EXCEPT !.after = it.failed]
    /\ UNCHANGED <<store, mem, assigned, pc, deltas, query>>

NextIter ==
    \/ \E c \in QClients :
          \/ QFind(c) \/ QFindMacro(c) \/ QInter(c) \/ QUnion(c) \/ QDiff(c)
          \/ TryQueryIter(c) \/ TryIntoIter(c) \/ Exec(c) \/ IterNext(c)
    \/ \E c \in OtherClients : SetAge(c) \/ Save(c) \/ Delete(c)

SpecIter == InitIter /\ [][NextIter]_vars

--------------------------------------------------------------------------
(* What the claims speak of                                               *)

HashExists(st, id) == KeyHash(ClassName, id) \in DOMAIN st.hash

Live(st) == {i \in Ids : HashExists(st, i)}

Stored(st, id) == st.hash[KeyHash(ClassName, id)]

\* Query::find(field, value): the ids in the index set of the leaf
Find(st, field, value) == SMembers(st.indices, KeyIndex(ClassName, field, value))

\* all_query: the ids in {Type}:all
all_query(st) == SMembers(st.all, KeyAll(ClassName))

AgeTexts == {Format(a) : a \in AgeVals}

\* the attribute names the index sets are kept under, and the texts of
\* the values they are kept for
IndexKeys == {AgeField, DogIdField}

IndexTexts == {Format(n) : n \in 0..MaxId} \cup AgeTexts

SaveOk == last.op = "save" /\ last.res = Ok

SaveOkNext == last'.op = "save" /\ last'.res = Ok

DeleteOkNext == last'.op = "delete" /\ last'.res = Ok /\ last'.id0 # 0

\* the calls of the List, Set and Counter accessors
RelOps ==
    {"incr", "counter", "list_len", "push_back", "pop_back", "push_front",
     "pop_front", "first", "last", "try_range", "try_iter", "list_contains",
     "list_remove", "set_key", "set_query", "set_insert", "set_remove",
     "set_contains", "set_len"}

Range(seq) == {seq[i] : i \in DOMAIN seq}

\* the query that a sequence of calls builds
RECURSIVE Built(_)
Built(log) ==
    LET n == Len(log)
        c == log[n]
        cur == Built(SubSeq(log, 1, n - 1))
    IN  CASE c.call = "find"  -> Query_find(c.field, c.value)
          [] c.call = "find!" -> find(c.groups)
          [] c.call = "inter" -> Query_inter(cur, c.field, c.value)
          [] c.call = "union" -> Query_union(cur, c.field, c.value)
          [] c.call = "diff"  -> Query_diff(cur, c.field, c.value)

\* the value in st of the set expression that a sequence of calls
\* reads as: inter is the intersection with the leaf, union the union
\* with it, diff the current set minus it, and find! the union over its
\* groups of the intersection of the group's leaves
RECURSIVE Denote(_, _)
Denote(log, st) ==
    LET n == Len(log)
        c == log[n]
        cur == Denote(SubSeq(log, 1, n - 1), st)
        leaf == Find(st, c.field, c.value)
    IN  CASE c.call = "find"  -> leaf
          [] c.call = "find!" ->
                {x \in Ids : \E g \in DOMAIN c.groups :
                    \A i \in DOMAIN c.groups[g] :
                        x \in Find(st, c.groups[g][i][1],
                                   Format(c.groups[g][i][2]))}
          [] c.call = "inter" -> cur \cap leaf
          [] c.call = "union" -> cur \cup leaf
          [] c.call = "diff"  -> cur \ leaf

Reversed(seq) == [i \in DOMAIN seq |-> seq[Len(seq) + 1 - i]]

\* how many operations deep a set expression is
RECURSIVE Depth(_)
Depth(set) ==
    IF set.kind = "Key" THEN 0
    ELSE 1 + CHOOSE d \in {Depth(set.sets[i]) : i \in DOMAIN set.sets} :
                 \A i \in DOMAIN set.sets : Depth(set.sets[i]) <= d

\* the operation of stal that each combining call stands for
OpKind(op) ==
    CASE op = "inter" -> "Inter" [] op = "union" -> "Union"
      [] op = "diff" -> "Diff"

\* sequences of calls that are equal to log as set expressions: the two
\* leaves of find(A).inter(B) or find(A).union(B) exchanged, two calls of
\* the same operation exchanged, the groups of find! and the leaves
\* of each group reversed
Equals(log) ==
    {[log EXCEPT ![1] = [@ EXCEPT !.field = log[2].field,
                                   !.value = log[2].value],
                 ![2] = [@ EXCEPT !.field = log[1].field,
                                   !.value = log[1].value]] :
        x \in {0} \cap {IF /\ Len(log) >= 2
                           /\ log[2].call \in {"inter", "union"}
                        THEN 0 ELSE 1}}
    \cup {[log EXCEPT ![2] = log[3], ![3] = log[2]] :
            x \in {0} \cap {IF Len(log) = 3 /\ log[2].call = log[3].call
                            THEN 0 ELSE 1}}
    \cup {<<[log[1] EXCEPT !.groups =
                Reversed([g \in DOMAIN log[1].groups |->
                             Reversed(log[1].groups[g])])]>> :
            x \in {0} \cap {IF log[1].call = "find!" THEN 0 ELSE 1}}

ExecDone == last.op = "exec"

\* the reply of every command of the solved sequence ops between its
\* first and its last, run in their order on the state st of the store
AllReplies(st, ops) ==
    RunFrom(st, [i \in 1..(Len(ops) - 2) |->
                    [op |-> ops[i + 1], ignore |-> FALSE]],
            1, NoTmp, <<>>).out

\* the attribute names of a flattened record
AttrNames(attributes) ==
    {attributes[2 * i - 1] : i \in 1..(Len(attributes) \div 2)}

\* the declared unique fields, and the declared index fields, that the
\* record the caller of the next call holds does not encode
MissingUniques ==
    pc.uf \ AttrNames(encoder(mem[last'.c][1]).attributes)

MissingIndices ==
    {f \in pc.xf :
        /\ f \notin AttrNames(encoder(mem[last'.c][1]).attributes)
        /\ f \o <<"_", "i", "d">>
              \notin AttrNames(encoder(mem[last'.c][1]).attributes)}

\* the counter key of the record the last call was about
VotesKeyNext == KeyCounter(ClassName, last'.id0, VotesField)

--------------------------------------------------------------------------
(* The reference scenario: one client makes, saves, loads and deletes     *)
(* dogs, points the reference of the dog it holds to a saved dog and      *)
(* follows it; it also creates and deletes a Queue (a type that stores    *)
(* no field in its hash), keeps a Reference<Queue> to it and follows it.  *)

NoFields == [f \in {} |-> <<>>]

\* Reference::get: get of the id held
Reference_get(st, id) == get(st, id)

\* Reference<Queue>::get
Queue_Reference_get(st, id) == Queue_load(st, id)

InitRef ==
    /\ store = EmptyStore
    /\ mem = [c \in Clients |-> <<>>]
    /\ last = NoCall
    /\ assigned = {}
    /\ pc = [qref |-> 0]
    /\ deltas = NoCounters
    /\ query = NoQueries
    /\ iter = NoQueries

\* obj.dog.get(&client)
ReferenceGet(c) ==
    /\ mem[c] # <<>>
    /\ last' = Label(c, "ref_get",
                     IF Reference_get(store, mem[c][1].dog).ok THEN Ok
                     ELSE DecoderError,
                     mem[c][1].dog, store)
    /\ UNCHANGED <<store, mem, assigned, pc, rel>>

\* create!(Queue { }, &client), and a reference set to the new Queue
QueueCreate(c) ==
    /\ Get(store.id, KeyId(QueueName), 0) < MaxPre
    /\ LET r == SaveScript(store, [name |-> QueueName, id |-> 0], <<>>,
                           NoFields, NoFields)
       IN  /\ store' = r.store
           /\ pc' = [pc EXCEPT !.qref = r.id]
           /\ last' = Label(c, "queue_create", Ok, 0, store)
    /\ UNCHANGED <<mem, assigned, rel>>

\* queue.delete(&client), of the Queue the reference points to
QueueDelete(c) ==
    /\ pc.qref \in SMembers(store.all, KeyAll(QueueName))
    /\ store' = DeleteScript(store,
                             [name |-> QueueName, id |-> pc.qref,
                              key |-> KeyHash(QueueName, pc.qref)],
                             NoFields, {TasksField})
    /\ last' = Label(c, "queue_delete", Ok, 0, store)
    /\ UNCHANGED <<mem, assigned, pc, rel>>

\* reference.get(&client), of the Reference<Queue>
QueueReferenceGet(c) ==
    /\ pc.qref # 0
    /\ last' = Label(c, "queue_ref_get",
                     IF Queue_Reference_get(store, pc.qref).ok THEN Ok
                     ELSE DecoderError,
                     0, store)
    /\ UNCHANGED <<store, mem, assigned, pc, rel>>

NewRef(c) == NewOf(c, NameVals, RelAges)

NextRef ==
    \E c \in RelClients :
        \/ NewRef(c)
        \/ ReferenceSet(c)
        \/ Save(c)
        \/ Delete(c)
        \/ Load(c)
        \/ ReferenceGet(c)
        \/ QueueCreate(c)
        \/ QueueDelete(c)
        \/ QueueReferenceGet(c)

SpecRef == InitRef /\ [][NextRef]_vars

\* the index sets that hold id t
IndexEntries(st, t) == {k \in DOMAIN st.indices : t \in st.indices[k]}

--------------------------------------------------------------------------
(* The sorting scenario: some of the four dogs of the Query example are   *)
(* saved, in the order of the example (the type has the indices age and   *)
(* color, the plain field name, and the counter votes); a client          *)
(* increments counters of saved records, and then sorts one query.        *)

DocDogs ==
    <<[id |-> 0, name |-> "Max", age |-> 3, color |-> "white"],
      [id |-> 0, name |-> "Buddy", age |-> 3, color |-> "black"],
      [id |-> 0, name |-> "Bella", age |-> 2, color |-> "black"],
      [id |-> 0, name |-> "Lola", age |-> 3, color |-> "black"]>>

\* the Encoder fed a record of the example's type
DocEncoder(self) ==
    [features   |-> [name |-> ClassName, id |-> self.id],
     attributes |-> <<AgeField, Format(self.age), ColorField, self.color,
                      NameField, self.name>>,
     counters   |-> counters,
     sets       |-> {},
     lists      |-> {}]

\* create!(Dog { name, age, color }, &client): the store afterwards
DocCreate(st, self) ==
    (CHOOSE out \in SaveWith(st, self, DocEncoder(self),
                             uniques_indices_of({}, {AgeField, ColorField},
                                                DocEncoder(self))) :
        TRUE).store

\* the dogs numbered in S created one after the other
RECURSIVE DocCreated(_, _)
DocCreated(st, S) ==
    IF S = {} THEN st
    ELSE LET i == CHOOSE i \in S : \A j \in S : i <= j
         IN  DocCreated(DocCreate(st, DocDogs[i]), S \ {i})

\* the queries that are sorted, as the calls that build them
SortLogs ==
    {<<Call("find", AgeField, Format(3), <<>>)>>,
     <<Call("find", AgeField, Format(3), <<>>),
       Call("inter", ColorField, "black", <<>>)>>,
     <<Call("find", ColorField, "black", <<>>),
       Call("union", AgeField, Format(2), <<>>)>>,
     <<Call("find", ColorField, "black", <<>>),
       Call("diff", AgeField, Format(2), <<>>)>>}

SortBys == {NameField, AgeField, VotesField}

SortLimits == {<<>>, <<0, 1>>, <<1, 2>>}

InitSort ==
    \E S \in SUBSET DOMAIN DocDogs :
        /\ S # {}
        /\ store = DocCreated(EmptyStore, S)
        /\ mem = [c \in Clients |-> <<>>]
        /\ last = NoCall
        /\ assigned = 1..Cardinality(S)
        /\ pc = [votes |-> 0]
        /\ deltas = NoCounters
        /\ query = NoQueries
        /\ iter = NoQueries

\* incr!(dog.votes, d, client) on a saved record
Vote(c) ==
    /\ last.op = "none"
    /\ pc.votes < MaxOps
    /\ \E i \in assigned, d \in DeltaVals :
          store' = Counter_incr(store, [id |-> i], VotesField, d).store
    /\ pc' = [pc EXCEPT !.votes = @ + 1]
    /\ UNCHANGED <<mem, last, assigned, rel>>

\* query.sort(by, limit, asc, alpha): the batch runs at once; an error
\* reply of the store is the error of the call
SortCall(c) ==
    /\ last.op = "none"
    /\ \E log \in SortLogs, by \in SortBys, limit \in SortLimits,
          asc \in BOOLEAN, alpha \in BOOLEAN :
          LET pipe == Query_sort(Built(log), by, limit, asc, alpha)
              r == Popped(RunFrom(store, pipe.cmds, 1, NoTmp, <<>>).out)
              call == [log |-> log, by |-> by, limit |-> limit,
                       asc |-> asc, alpha |-> alpha]
          IN  IF r.ok
              THEN \E ids \in r.seqs :
                      last' = Label(c, "sort", Ok, 0, store)
                                 @@ [val |-> ids] @@ call
              ELSE last' = Label(c, "sort", Err("RedisError", <<>>), 0, store)
                              @@ [val |-> <<>>] @@ call
    /\ UNCHANGED <<store, mem, assigned, pc, rel>>

NextSort == \E c \in QClients : Vote(c) \/ SortCall(c)

SpecSort == InitSort /\ [][NextSort]_vars

\* the value of field by that the store keeps for record i, as a weight
FieldValue(st, by, i) ==
    IF by = VotesField
    THEN IF KeyCounter(ClassName, i, by) \in DOMAIN st.counters
         THEN <<Format(st.counters[KeyCounter(ClassName, i, by)])>>
         ELSE <<>>
    ELSE <<Stored(st, i)[by]>>

--------------------------------------------------------------------------
(* Claims                                                                 *)

\* C1: in every reachable state no two live records with distinct ids
\* hold the same stored value for a unique field.
C1_UniqueValuesDistinct ==
    \A i, j \in Live(store) : \A f \in unique_fields :
        i # j => Stored(store, i)[f] # Stored(store, j)[f]

\* two live records, and the last save was refused for its name
C1_Witness ==
    /\ Cardinality(Live(store)) >= 2
    /\ last.op = "save"
    /\ last.res = Err("UniqueIndexViolation", NameField)

\* C2: a save that fails with UniqueIndexViolation writes nothing to the
\* store (hashes, unique maps, index sets, membership index, id allocator)
\* and leaves the in-memory record, its id included, as it was.
C2_FailedSaveWritesNothing ==
    [][(last'.op = "save" /\ last'.res.kind = "UniqueIndexViolation")
          => (store' = store /\ mem' = mem /\ assigned' = assigned)]_vars

\* a new record was refused, and has no id
C2_Witness ==
    /\ last.op = "save"
    /\ last.res.kind = "UniqueIndexViolation"
    /\ last.id0 = 0
    /\ mem[last.c][1].id = 0
    /\ Live(store) # {}

\* C3 as stated: once both racing saves have returned, exactly one has
\* succeeded and the other was refused with UniqueIndexViolation(name).
C3_ExactlyOneWins ==
    (\A c \in Clients : pc.res[c].kind # "ready")
        => \E w \in Clients :
              /\ pc.res[w] = Ok
              /\ \A c \in Clients \ {w} :
                    pc.res[c] = Err("UniqueIndexViolation", NameField)

\* C3, amended: a racing save is refused only with
\* UniqueIndexViolation(name), a refused record keeps id 0, and the owner
\* of the value is never replaced: it is the record that owned the value
\* at the start if there was one (then every racing save is refused), and
\* otherwise, once a save has succeeded, the one winner; when both saves
\* have returned and nobody owned the value at the start, exactly one
\* has succeeded.
C3_OneWinsUnlessOwned ==
    LET v == mem[CHOOSE c \in Clients : TRUE][1].name
        owner == UniqueOwner(store, ClassName, NameField, v)
        won == {c \in Clients : pc.res[c] = Ok}
        lost == {c \in Clients : pc.res[c].kind \notin {"ready", "Ok"}}
    IN  /\ \A c \in lost :
               /\ pc.res[c] = Err("UniqueIndexViolation", NameField)
               /\ mem[c][1].id = 0
               /\ owner # 0
        /\ pc.owner0 # 0 => (won = {} /\ owner = pc.owner0)
        /\ \A c \in won : mem[c][1].id = owner /\ won = {c}
        /\ (pc.owner0 = 0 /\ won \cup lost = Clients) => Cardinality(won) = 1
        /\ owner # 0 => Stored(store, owner)[NameField] = v

\* both saves have returned, nobody owned the value at the start, other
\* records were saved before: one racer won and the other was refused
C3_Witness ==
    /\ \A c \in Clients : pc.res[c].kind \notin {"ready", "idle"}
    /\ pc.owner0 = 0
    /\ Cardinality(Live(store)) >= 2
    /\ \E w, l \in Clients :
          /\ pc.res[w] = Ok
          /\ pc.res[l] = Err("UniqueIndexViolation", NameField)
          /\ UniqueOwner(store, ClassName, NameField, mem[l][1].name)
                = mem[w][1].id

\* C4: when the save of a record R with id 0 succeeds with id i, load(i)
\* right after it returns R with id = i.
C4_SaveThenLoad ==
    [][(SaveOkNext /\ last'.id0 = 0)
          => LET R == mem[last'.c][1]
                 i == mem'[last'.c][1].id
             IN  /\ load(store', i).ok
                 /\ load(store', i).obj = [R EXCEPT !.id = i]
                 /\ load(store', i).obj = mem'[last'.c][1]]_vars

\* a new record was just saved and can be loaded
C4_Witness ==
    /\ SaveOk
    /\ last.id0 = 0
    /\ load(store, mem[last.c][1].id).ok
    /\ load(store, mem[last.c][1].id).obj.age = 3

\* C5: saving a persisted record whose unique value is the stored one is
\* never refused with UniqueIndexViolation, and saving one that equals the
\* stored record leaves the store and the id as they were.
C5_ResaveIdempotent ==
    [][(last'.op = "save" /\ last'.id0 # 0)
          => LET R == mem[last'.c][1]
                 was == load(store, R.id)
             IN  /\ (was.ok /\ was.obj.name = R.name) => last'.res = Ok
                 /\ (was.ok /\ was.obj = R) => (store' = store /\ mem' = mem)]_vars

\* a persisted record was saved again and its hash is what it was
C5_Witness ==
    /\ SaveOk
    /\ last.id0 # 0
    /\ last.pre # EmptyMap
    /\ last.pre = Stored(store, last.id0)

\* C6: each index set holds exactly the ids of the live records whose
\* stored value of the field is the set's value, and no index set exists
\* for anything else; Query::find(F, v) yields those ids.
C6_IndexExact ==
    /\ \A f \in IndexKeys : \A v \in IndexTexts :
          Find(store, f, v) = {i \in Live(store) : Stored(store, i)[f] = v}
    /\ \A k \in DOMAIN store.indices : k[2] \in IndexKeys /\ k[3] \in IndexTexts

\* a save moved a live record from one index set to the other
C6_Witness ==
    /\ SaveOk
    /\ last.id0 # 0
    /\ last.pre # EmptyMap
    /\ last.pre[AgeField] # Stored(store, last.id0)[AgeField]
    /\ last.id0 \in Find(store, AgeField, Stored(store, last.id0)[AgeField])
    /\ last.id0 \notin Find(store, AgeField, last.pre[AgeField])

\* C7: a successful save of a record with id 0 gives it an id above 0 and
\* above every id assigned before; a successful save of a record with a
\* non-zero id leaves the id as it is.
C7_IdsMonotone ==
    [][SaveOkNext
          => LET new == mem'[last'.c][1].id
             IN  IF last'.id0 = 0
                 THEN new > 0 /\ \A i \in assigned : new > i
                 ELSE new = mem[last'.c][1].id]_vars

\* a new record got its id after a record with a smaller id was deleted
C7_Witness ==
    /\ SaveOk
    /\ last.id0 = 0
    /\ \E i \in assigned : i < mem[last.c][1].id /\ ~HashExists(store, i)

C10_DeleteClearsIndices ==
    [][DeleteOkNext
          => \A k \in DOMAIN store'.indices :
                k[1] = ClassName => last'.id0 \notin store'.indices[k]]_vars

\* a record that was in an index set was deleted, and another record is
\* still in that set
C10_Witness ==
    /\ last.op = "delete"
    /\ last.res = Ok
    /\ last.id0 # 0
    /\ last.pre # EmptyMap
    /\ Find(store, AgeField, last.pre[AgeField]) # {}
    /\ last.id0 \notin Find(store, AgeField, last.pre[AgeField])

\* C11: after a successful delete of a persisted record no relation
\* container of its id exists: no list or set key {Type}:{f}:{id}, no
\* counter key {Type}:{id}:{c}; a counter get then returns 0 and the list
\* and set lengths are 0.
C11_DeleteRemovesContainers ==
    [][DeleteOkNext
          => LET R == mem[last'.c][1]
             IN  /\ Owned(store', R.id) = NoneOwned
                 /\ Counter_get(store', R, VotesField).val = 0
                 /\ List_len(store', TasksField, R).val = 0
                 /\ Set_len(store', PackField, R).val = 0]_vars

\* a record that had a counter, a list and a set was deleted
C11_Witness ==
    /\ last.op = "delete"
    /\ last.res = Ok
    /\ last.id0 # 0
    /\ last.had.counters = {KeyCounter(ClassName, last.id0, VotesField)}
    /\ last.had.lists = {KeyRelation(ClassName, TasksField, last.id0)}
    /\ last.had.sets = {KeyRelation(ClassName, PackField, last.id0)}

\* C12: each unique map holds exactly the pairs (v -> id) with id a live
\* record whose stored value of the field is v, and there is no unique
\* map of anything else; so a save that changes the value frees the old
\* one, and a delete removes the entry of the deleted id whatever the
\* copy passed to it holds.
C12_UniqueMapExact ==
    /\ \A f \in unique_fields :
          LET m == Get(store.uniques, KeyUnique(ClassName, f), [v \in {} |-> 0])
          IN  /\ DOMAIN m = {Stored(store, i)[f] : i \in Live(store)}
              /\ \A v \in DOMAIN m :
                    m[v] \in Live(store) /\ Stored(store, m[v])[f] = v
    /\ \A k \in DOMAIN store.uniques : k[1] = ClassName /\ k[2] \in unique_fields

\* a record was deleted through a copy whose name had been changed and
\* not saved; the stored name is free, another record is live
C12_Witness ==
    /\ last.op = "delete"
    /\ last.res = Ok
    /\ last.pre # EmptyMap
    /\ last.self.name # last.pre[NameField]
    /\ UniqueOwner(store, ClassName, NameField, last.pre[NameField]) = 0
    /\ Live(store) # {}

\* C13 as stated: delete of a record whose id is 0 returns NotSaved and
\* leaves the store as it was.
C13_DeleteUnsavedNotSaved ==
    [][(last'.op = "delete" /\ last'.id0 = 0)
          => (last'.res = NotSaved /\ store' = store)]_vars

\* C15: for a persisted owner, get returns 0 for a counter never
\* incremented and otherwise the sum of the increments made; incr returns
\* the value before plus its increment, which is the value get returns
\* afterwards.
C15_CounterSums ==
    [][/\ (last'.op = "counter" /\ last'.res = Ok)
          => /\ last'.val = Get(deltas, VotesKeyNext, 0)
             /\ VotesKeyNext \notin DOMAIN deltas => last'.val = 0
       /\ (last'.op = "incr" /\ last'.res = Ok)
          => LET R == mem[last'.c][1]
                 before == Counter_get(store, R, VotesField).val
             IN  /\ last'.val - before \in DeltaVals
                 /\ last'.val - before
                       = deltas'[VotesKeyNext] - Get(deltas, VotesKeyNext, 0)
                 /\ last'.val = deltas'[VotesKeyNext]
                 /\ Counter_get(store', R, VotesField).val = last'.val]_vars

\* get returned a negative sum, two decrements after an increment or more
C15_Witness ==
    /\ last.op = "counter"
    /\ last.res = Ok
    /\ last.val = -1
    /\ last.id0 > 1

\* C16: every List, Set and Counter call on an owner whose id is 0 returns
\* NotSaved, issues no store command and leaves the store as it was.
C16_UnsavedOwnerNotSaved ==
    [][(last'.op \in RelOps /\ last'.id0 = 0)
          => /\ last'.res = NotSaved
             /\ last'.cmd = "none"
             /\ store' = store]_vars

\* an accessor was refused for a new record while another record is
\* saved and has a list, a set and a counter
C16_Witness ==
    /\ last.op \in RelOps
    /\ last.id0 = 0
    /\ last.res = NotSaved
    /\ store.lists # NoLists
    /\ store.sets # NoSets
    /\ store.counters # NoCounters

\* C17 as stated: collection! on an owner whose id is 0 signals NotSaved,
\* and yields no record.
C17_CollectionUnsavedNotSaved ==
    [][(last'.op = "collection" /\ last'.id0 = 0)
          => /\ last'.res = Ok
                   => SMembers(store'[last'.val.family], last'.val.key) = {}
             /\ last'.res = NotSaved]_vars


\* C14: when every client has incremented a counter by 1 once, in whatever
\* order the store ran the increments, the counter holds its initial value
\* plus the number of clients, and no two of the calls returned the same
\* value.
C14_ConcurrentIncr ==
    (\A c \in Clients : pc.res[c].kind = "done") =>
        /\ Counter_get(store, mem[1][1], VotesField).val
              = pc.owner0 + Cardinality(Clients)
        /\ \A c, d \in Clients :
              c # d => pc.res[c].field[1] # pc.res[d].field[1]

\* both increments are done on a counter that held a value other than 0
C14_Witness ==
    /\ \A c \in Clients : pc.res[c].kind = "done"
    /\ pc.owner0 # 0
    /\ last.op = "incr" /\ last.res = Ok


\* C18: the ids an executed query returns are the value of its set
\* expression in the store (inter the intersection, union the union,
\* diff the current set minus the given one, find! the union of the
\* intersections of its groups), and a query that is equal to it as a
\* set expression returns the same set of ids.
C18_QuerySetAlgebra ==
    ExecDone =>
        /\ Range(last.val) = Denote(last.log, store)
        /\ \A q \in Equals(last.log) :
              Query_ids(store, Built(q)) = Range(last.val)

\* a union followed by a difference returned some of the live records
C18_Witness ==
    /\ ExecDone
    /\ Len(last.log) = 3
    /\ last.log[2].call = "union" /\ last.log[3].call = "diff"
    /\ last.val # <<>>
    /\ Range(last.val) # Live(store)
    /\ Equals(last.log) # {}

C20_IterationEndsAtFailure ==
    last.op = "next" =>
        /\ last.res = Ok
        /\ last.after => last.val = <<>>


\* C22: load and get of an id fail when the store holds no record hash
\* for the type and the id, for the type with fields in its hash and for
\* a type with none, id 0 included.
C22_LoadAbsentFails ==
    \A id \in {0} \cup Ids :
        /\ ~HashExists(store, id) => ~get(store, id).ok
        /\ KeyHash(QueueName, id) \notin DOMAIN store.hash
              => ~Queue_load(store, id).ok


\* C23: when a declared unique field is not among the encoded attribute
\* names, save and delete return UnknownIndex of such a field, the store
\* is unchanged, and save leaves the in-memory record as it was.
C23_UnknownUniqueFailsFast ==
    [][(last'.op \in {"save", "delete"} /\ MissingUniques # {}) =>
          /\ last'.res.kind = "UnknownIndex"
          /\ last'.res.field \in MissingUniques
          /\ store' = store
          /\ last'.op = "save" => mem' = mem]_vars

\* a save of a record of a type that declares the unique field chip
\* returned UnknownIndex
C23_Witness ==
    /\ last.op = "save"
    /\ last.res = Err("UnknownIndex", ChipField)
    /\ pc.uf = DeclUniques

\* C24: when a declared index field is among the encoded attribute names
\* neither as it is nor with _id appended, save returns UnknownIndex of
\* that field and writes nothing.
C24_UnknownIndexFailsFast ==
    [][(last'.op = "save" /\ MissingIndices # {}) =>
          /\ last'.res.kind = "UnknownIndex"
          /\ last'.res.field \in MissingIndices
          /\ store' = store]_vars

\* C25: a change made in memory changes nothing in the store: the hash of
\* an id, and so what load(id) returns to any client, changes only in a
\* successful save or delete of that id; a load returns the stored values;
\* and a successful save leaves as the stored hash exactly the attributes
\* of the saved copy, whatever was stored before.
C25_StoreChangesOnlyOnSave ==
    [][/\ \A i \in Ids :
            (/\ ~(SaveOkNext /\ mem'[last'.c][1].id = i)
             /\ ~(DeleteOkNext /\ last'.id0 = i))
               => HGetAll(store'.hash, KeyHash(ClassName, i))
                     = HGetAll(store.hash, KeyHash(ClassName, i))
       /\ SaveOkNext
            => LET R == mem'[last'.c][1]
               IN  /\ Stored(store', R.id) = AttrMap(encoder(R).attributes)
                   /\ load(store', R.id).obj = R
       /\ (last'.op = "load" /\ last'.res = Ok)
            => /\ mem'[last'.c][1] = load(store, last'.id0).obj
               /\ store' = store]_vars

\* a client loads a record while another client holds the same record
\* with values that differ from the stored ones
C25_Witness ==
    /\ last.op = "load"
    /\ last.res = Ok
    /\ mem[last.c][1] = load(store, last.id0).obj
    /\ \E d \in Clients \ {last.c} :
          /\ mem[d] # <<>>
          /\ mem[d][1].id = last.id0
          /\ mem[d][1].age # mem[last.c][1].age
          /\ mem[d][1].name # mem[last.c][1].name

\* C27: with one client saving and deleting, with(field, v) of the unique
\* field returns Ok(Some(r)), r being the live record whose stored value
\* of the field is v, when there is one, and Ok(None) when there is none;
\* what it reads is the unique map kept at {Type}:uniques:{field}.
C27_WithFindsLiveOwner ==
    last.op = "with"
        => LET owners == {i \in Live(store) :
                             Stored(store, i)[NameField] = last.val}
           IN  /\ last.res = Ok
               /\ Cardinality(owners) <= 1
               /\ owners = {} => last.opt = <<>>
               /\ \A i \in owners :
                     /\ last.opt = <<load(store, i).obj>>
                     /\ last.opt[1].id = i
                     /\ last.opt[1].name = last.val
                     /\ Get(store.uniques, KeyUnique(ClassName, NameField),
                            EmptyMap)[last.val] = i

\* a record was saved as Max and then as Buddy: Buddy is found, and Max,
\* of which the store keeps no record any more, is not
C27_Witness ==
    /\ last.op = "with"
    /\ last.val = "Max"
    /\ last.opt = <<>>
    /\ 1 \in Live(store)
    /\ with(store, NameField, "Buddy").opt # <<>>
    /\ with(store, NameField, "Buddy").opt[1].id = 1

\* C28: a call of inter, union or diff replaces the expression of the
\* query by one new node of that operation whose operands are the whole
\* previous expression and the given set, so that the tree is one level
\* deeper and the previous expression is kept; in a difference the
\* previous expression is the first operand, and in an intersection or
\* a union the result is the same with the operands in the other order.
C28_WrapsPreviousExpression ==
    [][(last'.op \in {"inter", "union", "diff"})
          => LET prev == query[last'.c][1].set
                 new == query'[last'.c][1].set
                 log == query'[last'.c][1].log
                 given == Query_key(log[Len(log)].field, log[Len(log)].value)
             IN  /\ new.kind = OpKind(last'.op)
                 /\ Len(new.sets) = 2
                 /\ \E i \in 1..2 :
                       new.sets[i] = prev /\ new.sets[3 - i] = given
                 /\ Depth(new) = Depth(prev) + 1
                 /\ last'.op = "diff" => new.sets[1] = prev
                 /\ last'.op # "diff"
                       => Query_ids(store, StalOp(new.kind, Reversed(new.sets)))
                             = Query_ids(store, new)]_vars

\* a query two operations deep: an intersection, then a difference whose
\* first operand is that intersection
C28_Witness ==
    /\ last.op = "diff"
    /\ query[last.c] # <<>>
    /\ Depth(query[last.c][1].set) = 2
    /\ query[last.c][1].set.sets[1].kind = "Inter"
    /\ query[last.c][1].set.sets[1].sets[2].kind = "Key"

\* C29: for the solved sequence of a query, of n >= 3 commands with the
\* result at position d, 1 <= d <= n - 2, the batch that is submitted is
\* atomic and is the commands at positions 1..n-2 in their order, every
\* one of them marked as discarded but the one at d, which is the only
\* reply retained; and the ids returned are the reply of the command at d.
C29_BatchIsSolvedSequence ==
    /\ \A c \in QClients :
          (iter[c] # <<>> /\ iter[c][1].state = "sent")
             => LET solved == Solve(Built(iter[c][1].log))
                    n == Len(solved.ops)
                    d == solved.pos
                    pipe == iter[c][1].pipe
                IN  (n >= 3 /\ 1 <= d /\ d <= n - 2)
                       => /\ pipe.atomic
                          /\ Len(pipe.cmds) = n - 2
                          /\ \A i \in 1..(n - 2) :
                                /\ pipe.cmds[i].op = solved.ops[i + 1]
                                /\ pipe.cmds[i].ignore <=> (i # d)
                          /\ Cardinality({i \in 1..(n - 2) :
                                             ~pipe.cmds[i].ignore}) = 1
    /\ ExecDone
          => LET solved == Solve(Built(last.log))
             IN  \E s \in last.at :
                    Range(last.val) = AllReplies(s, solved.ops)[solved.pos]

\* a sequence of six commands, two of which store a temporary set and
\* one of which removes them, was executed, and its result, the reply of
\* the command at position 3, was returned
C29_Witness ==
    /\ ExecDone
    /\ Len(Solve(Built(last.log)).ops) = 6
    /\ Solve(Built(last.log)).pos = 3
    /\ Solve(Built(last.log)).ops[5].cmd = "DEL"
    /\ last.val # <<>>

\* C30: a save never changes the counters, the lists or the sets of the
\* store; a call of a list, set or counter accessor never changes the
\* record hashes, the unique maps, the index sets, the membership index
\* or the in-memory record; and what an accessor writes is in the store
\* when the call returns, with no save of the owner.
C30_HashAndContainersApart ==
    [][/\ last'.op = "save"
            => /\ store'.counters = store.counters
               /\ store'.lists = store.lists
               /\ store'.sets = store.sets
       /\ last'.op \in RelOps
            => /\ store'.hash = store.hash
               /\ store'.uniques = store.uniques
               /\ store'.indices = store.indices
               /\ store'.all = store.all
               /\ store'.id = store.id
               /\ mem' = mem
       /\ (last'.op = "incr" /\ last'.res = Ok)
            => /\ Counter_get(store', mem[last'.c][1], VotesField).val
                     = last'.val
               /\ last'.val
                     # Counter_get(store, mem[last'.c][1], VotesField).val
       /\ (last'.op = "push_back" /\ last'.res = Ok)
            => List_len(store', TasksField, mem[last'.c][1]).val
                  = List_len(store, TasksField, mem[last'.c][1]).val + 1
       /\ (last'.op = "set_insert" /\ last'.res = Ok /\ last'.val)
            => Set_len(store', PackField, mem[last'.c][1]).val
                  = Set_len(store, PackField, mem[last'.c][1]).val + 1]_vars

\* a record that has a counter, a list and a set was saved again with
\* another age than the stored one, and has them still
C30_Witness ==
    /\ SaveOk
    /\ last.id0 # 0
    /\ last.pre # Stored(store, last.id0)
    /\ Counter_get(store, mem[last.c][1], VotesField).val = 2
    /\ List_len(store, TasksField, mem[last.c][1]).val = 2
    /\ Set_len(store, PackField, mem[last.c][1]).val = 2

\* C26: the collection of a saved owner P yields exactly the live records
\* whose stored reference is P.id, after any saves (a reference pointed
\* to another owner among them) and deletes, whatever the name of the
\* reference field.
C26_CollectionYieldsReferrers ==
    last.op = "collection"
        => last.val = {t \in Live(store) :
                          Stored(store, t)[pc.ref \o <<"_", "i", "d">>]
                             = Format(last.id0)}

\* C21: sort(by, limit, asc, alpha) returns the ids of the expression of
\* the query, each once, ordered by the value of by kept for each record
\* (the counter's own key for the counter field, the field of the record
\* hash otherwise), ascending when asc and descending otherwise, and cut
\* to the window (offset, count) when limit is given; it fails only when
\* the values are to be compared as numbers and one of them is no
\* number.  With the four dogs of the example, age = 3 intersected with
\* color = black and sorted by name ascending is [Buddy, Lola].
C21_SortOrdersByField ==
    last.op = "sort"
        => LET D == Denote(last.log, store)
               v(i) == FieldValue(store, last.by, i)
               inorder(s) ==
                   \A i, j \in DOMAIN s :
                       i < j => IF last.asc
                                THEN WeightLE(last.alpha, v(s[i]), v(s[j]))
                                ELSE WeightLE(last.alpha, v(s[j]), v(s[i]))
           IN  /\ last.res = Ok
                     <=> (last.alpha \/ \A i \in D : IsScore(v(i)))
               /\ last.res = Ok
                     => \E full \in Orders(D) :
                           /\ inorder(full)
                           /\ last.val = Window(full, last.limit)
               /\ (/\ assigned = DOMAIN DocDogs
                   /\ last.log = <<Call("find", AgeField, Format(3), <<>>),
                                   Call("inter", ColorField, "black", <<>>)>>
                   /\ last.by = NameField /\ last.limit = <<>>
                   /\ last.asc /\ last.alpha)
                     => /\ last.val = <<2, 4>>
                        /\ Stored(store, 2)[NameField] = "Buddy"
                        /\ Stored(store, 4)[NameField] = "Lola"

\* the four dogs of the example are saved, and age = 3 intersected with
\* color = black was sorted by name, ascending: Buddy, then Lola
C21_Witness ==
    /\ last.op = "sort"
    /\ last.res = Ok
    /\ assigned = DOMAIN DocDogs
    /\ Len(last.log) = 2 /\ last.log[2].call = "inter"
    /\ last.by = NameField /\ last.limit = <<>>
    /\ last.asc /\ last.alpha
    /\ last.val = <<2, 4>>

\* C31: Reference::set changes the in-memory owner only, so that load of
\* the owner's id returns what it returned before; the delete of a record
\* changes neither the hash nor the index entries of the other records,
\* those that refer to it included; and Reference::get of a reference to
\* a record that was deleted fails with a DecoderError, whatever the type
\* of the record.
C31_ReferenceIsPointerById ==
    [][/\ last'.op = "none"
            => /\ store' = store
               /\ \A i \in Ids : load(store', i) = load(store, i)
       /\ DeleteOkNext
            => /\ \A t \in Live(store) \ {last'.id0} :
                     /\ t \in Live(store')
                     /\ Stored(store', t) = Stored(store, t)
                     /\ IndexEntries(store', t) = IndexEntries(store, t)
               /\ ~Reference_get(store', last'.id0).ok
       /\ (last'.op = "ref_get" /\ last'.id0 \notin Live(store))
            => last'.res = DecoderError
       /\ (/\ last'.op = "queue_ref_get"
           /\ pc.qref \notin SMembers(store.all, KeyAll(QueueName)))
            => last'.res = DecoderError]_vars

\* C32: the list of a saved owner is a finite sequence of ids: push_back
\* appends and push_front prepends the id of the object; pop_front and
\* pop_back take the first and the last id out and return its record
\* (None on an empty list), first and last return it and leave the list
\* as it is; len is the length; try_range(start, end) yields the ids at
\* the positions from start to end, both included, a negative position
\* counted from the end, and try_iter yields them all in order; contains
\* tells whether the id occurs; remove takes out every occurrence of the
\* id and returns how many there were.  The record of an id is its load,
\* and when it cannot be loaded the call returns the DecoderError.
C32_ListIsSequence ==
    [][(last'.op \in RelOps /\ "args" \in DOMAIN last')
          => LET k == KeyRelation(ClassName, TasksField, mem[last'.c][1].id)
                 items == LItems(store.lists, k)
                 after == LItems(store'.lists, k)
                 n == Len(items)
                 op == last'.op
                 a == last'.args
                 same == after = items
                 none == last'.res = Ok /\ last'.val = <<>>
                 record(id) ==
                     IF get(store, id).ok
                     THEN /\ last'.res = Ok
                          /\ last'.val = <<get(store, id).obj>>
                          /\ last'.val[1].id = id
                     ELSE last'.res = DecoderError
                 pos(x) == IF x < 0 THEN n + x ELSE x
                 between == {p \in 0..(n - 1) : pos(a[1]) <= p /\ p <= pos(a[2])}
                 isnt(x) == x # a[1]
             IN  /\ op = "push_back"
                      => last'.res = Ok /\ after = Append(items, a[1])
                 /\ op = "push_front"
                      => last'.res = Ok /\ after = <<a[1]>> \o items
                 /\ op = "pop_front"
                      => IF n = 0 THEN same /\ none
                         ELSE after = Tail(items) /\ record(items[1])
                 /\ op = "pop_back"
                      => IF n = 0 THEN same /\ none
                         ELSE /\ after = SubSeq(items, 1, n - 1)
                              /\ record(items[n])
                 /\ op = "first"
                      => same /\ IF n = 0 THEN none ELSE record(items[1])
                 /\ op = "last"
                      => same /\ IF n = 0 THEN none ELSE record(items[n])
                 /\ op = "list_len"
                      => same /\ last'.res = Ok /\ last'.val = n
                 /\ op = "try_range"
                      => /\ same /\ last'.res = Ok
                         /\ Len(last'.val) = Cardinality(between)
                         /\ \A i \in DOMAIN last'.val :
                               /\ pos(a[1]) + i - 1 \in between
                               /\ last'.val[i] = items[pos(a[1]) + i]
                 /\ op = "try_iter"
                      => same /\ last'.res = Ok /\ last'.val = items
                 /\ op = "list_contains"
                      => /\ same /\ last'.res = Ok
                         /\ last'.val <=> (a[1] \in Range(items))
                 /\ op = "list_remove"
                      => /\ last'.res = Ok
                         /\ after = SelectSeq(items, isnt)
                         /\ last'.val = Cardinality({i \in 1..n :
                                                        items[i] = a[1]})]_vars

\* the one object that the list held twice was removed: two occurrences
C32_Witness ==
    /\ last.op = "list_remove"
    /\ "args" \in DOMAIN last
    /\ last.val = 2
    /\ LItems(store.lists,
              KeyRelation(ClassName, TasksField, mem[last.c][1].id)) = <<>>

\* C33: the set of a saved owner is a set of ids: insert returns true
\* exactly when the id was absent and remove exactly when it was present,
\* the insert of a present id and the remove of an absent one leave the
\* set as it was, contains tells whether the id is a member, and len is
\* the number of distinct members.
C33_SetIsSet ==
    [][(last'.op \in RelOps /\ "args" \in DOMAIN last')
          => LET k == KeyRelation(ClassName, PackField, mem[last'.c][1].id)
                 members == SMembers(store.sets, k)
                 after == SMembers(store'.sets, k)
                 op == last'.op
                 a == last'.args
             IN  /\ last'.res = Ok
                 /\ op = "set_insert"
                      => /\ last'.val <=> (a[1] \notin members)
                         /\ after = members \cup {a[1]}
                         /\ a[1] \in members => store' = store
                 /\ op = "set_remove"
                      => /\ last'.val <=> (a[1] \in members)
                         /\ after = members \ {a[1]}
                         /\ a[1] \notin members => store' = store
                 /\ op = "set_contains"
                      => /\ last'.val <=> (a[1] \in members)
                         /\ store' = store
                 /\ op = "set_len"
                      => /\ last'.val = Cardinality(members)
                         /\ store' = store]_vars

\* an object that is in the set was inserted again: false, and the set
\* still has its two members
C33_Witness ==
    /\ last.op = "set_insert"
    /\ "args" \in DOMAIN last
    /\ last.val = FALSE
    /\ Set_len(store, PackField, mem[last.c][1]).val = 2

\* C35: when pop_front or pop_back returns an error because the record
\* of the id it took cannot be loaded, the list is as it was before the
\* call: the id is still in it.
C35_FailedPopKeepsElement ==
    [][(/\ last'.op \in {"pop_front", "pop_back"}
        /\ "args" \in DOMAIN last'
        /\ last'.res = DecoderError)
          => LET k == KeyRelation(ClassName, TasksField, mem[last'.c][1].id)
                 items == LItems(store.lists, k)
                 popped == IF last'.op = "pop_front" THEN items[1]
                           ELSE items[Len(items)]
             IN  (popped \in assigned /\ popped \notin Live(store))
                    => /\ LItems(store'.lists, k) = items
                       /\ popped \in Range(LItems(store'.lists, k))]_vars

\* C34: with(field, v) never returns a record whose stored value of the
\* field differs from v, and never returns an error for a value that no
\* live record holds, also when saves and deletes of another client come
\* between its lookup in the unique map and its load of the record.
C34_WithIsAtomic ==
    last.op = "with"
        => /\ last.opt # <<>>
                 => /\ last.opt[1].name = last.val
                    /\ Stored(store, last.opt[1].id)[NameField] = last.val
           /\ last.res # Ok
                 => \E i \in Live(store) :
                       Stored(store, i)[NameField] = last.val

==========================================================================
